---- MODULE Spec2Model ----
(***************************************************************************)
(* Model of the bit codec (package bitbuffer) and of the PER whole-number  *)
(* and length-determinant encoders (package per) of asn1c-go.              *)
(*                                                                         *)
(* 64-bit machine words (uint64 / int64) are modelled as the set of their  *)
(* set bit positions, a subset of 0..63 (bit 0 is the least significant,   *)
(* bit 63 the sign bit of an int64).  Octets, bit counts and lengths are   *)
(* ordinary naturals.                                                      *)
(***************************************************************************)
EXTENDS Integers, Sequences, FiniteSets, TLC

VARIABLES
    w,        \* bitbuffer.Codec used as writer
    r,        \* bitbuffer.Codec used as reader
    log,      \* the calls made on the writer, in order
    phase,    \* "write" | "read"
    got,      \* results of the reader calls, in order
    e,        \* per.Encoder
    call,     \* the last encoder call: its inputs, the encoder before it, its result
    d         \* per.Decoder and the result of its last call

vars == <<w, r, log, phase, got, e, call, d>>

codecVars == <<w, r, log, phase, got>>
perVars   == <<e, call, d>>

-----------------------------------------------------------------------------
(* Bounds of the model *)

MaxFields == 3      \* calls made on a writer
MaxPrefix == 7      \* one-bit fields encoded before the call under study

-----------------------------------------------------------------------------
(* 64-bit words *)

WordBits == 0..63

Min(a, b) == IF a <= b THEN a ELSE b

SetMax(S) == CHOOSE x \in S : \A y \in S : y <= x

Pow2(k) == 2 ^ k

\* the natural number whose binary digits are given by S (S within 0..30)
RECURSIVE SumPow2(_)
SumPow2(S) ==
    IF S = {} THEN 0
    ELSE LET b == SetMax(S) IN Pow2(b) + SumPow2(S \ {b})

\* uint64(i) of a natural i < 2^31
W(i) == {b \in 0..30 : (i \div Pow2(b)) % 2 = 1}

\* int64(i) of an integer |i| < 2^31 (two's complement)
I64(i) == IF i >= 0 THEN W(i) ELSE WordBits \ W(-i - 1)

\* int(x) of a word known to be small
ToNat(x) == SumPow2(x)

Zero == {}
One  == {0}

And64(a, b) == a \cap b
Or64(a, b)  == a \cup b
Not64(a)    == WordBits \ a
Shl64(a, k) == {i + k : i \in a} \cap WordBits
Shr64(a, k) == {i - k : i \in {j \in a : j >= k}}

\* a + b + cin modulo 2^64: a carry enters bit i when some lower bit generates
\* one (or cin does) and every bit in between propagates it
Carry(a, b, cin, i) ==
    \/ \E j \in 0..(i - 1) :
          /\ j \in a /\ j \in b
          /\ \A k \in (j + 1)..(i - 1) : k \in a \/ k \in b
    \/ cin /\ \A k \in 0..(i - 1) : k \in a \/ k \in b

AddC64(a, b, cin) ==
    {i \in WordBits : ((i \in a) # (i \in b)) # Carry(a, b, cin, i)}

Add64(a, b) == AddC64(a, b, FALSE)
Sub64(a, b) == AddC64(a, Not64(b), TRUE)

\* unsigned and signed comparison
ULt(a, b) ==
    LET diff == (a \ b) \cup (b \ a)
    IN  diff # {} /\ SetMax(diff) \in b
ULe(a, b) == a = b \/ ULt(a, b)

SLt(a, b) ==
    IF (63 \in a) # (63 \in b) THEN 63 \in a ELSE ULt(a, b)
SLe(a, b) == a = b \/ SLt(a, b)

\* math/bits.Len64
Len64(x) == IF x = {} THEN 0 ELSE SetMax(x) + 1

-----------------------------------------------------------------------------
(* Octets (uint8) *)

Bit(x, b) == (x \div Pow2(b)) % 2

ByteOr(x, y) ==
    SumPow2({b \in 0..7 : Bit(x, b) = 1 \/ Bit(y, b) = 1})
ByteAnd(x, y) ==
    SumPow2({b \in 0..7 : Bit(x, b) = 1 /\ Bit(y, b) = 1})
ByteShl(x, s) == (x * Pow2(s)) % 256
ByteShr(x, s) == x \div Pow2(s)

\* uint8(x) of a word: its low eight bits
Uint8(x) == SumPow2(x \cap 0..7)

\* (1 << n) - 1 evaluated in uint8
ByteMask(n) == ((Pow2(n) % 256) - 1) % 256

\* binary.BigEndian.PutUint64: the eight octets of a word, most significant first
PutUint64(x) ==
    [j \in 1..8 |-> SumPow2({b \in 0..7 : (64 - 8 * j + b) \in x})]

\* binary.BigEndian.Uint64: the word held by eight octets
Uint64(tmp) ==
    {i \in WordBits : Bit(tmp[8 - (i \div 8)], i % 8) = 1}

-----------------------------------------------------------------------------
(* bitbuffer.Codec *)

TMP_ARRAY_SIZE == 8

Drop(s, n) == SubSeq(s, n + 1, Len(s))

CreateWriter == [Buff |-> <<>>, offset |-> 0, written |-> 0, read |-> 0]

CreateReader(data) == [Buff |-> data, offset |-> 0, written |-> 0, read |-> 0]

NumWritten(c) == c.written
NumRead(c) == c.read

Bytes(c) == IF c.written = 0 THEN <<>> ELSE c.Buff

\* grow(1): the buffer is extended by one octet; the octet is zero because the
\* spare capacity of the slice has never been written
grow(c, n) == [c EXCEPT !.Buff = @ \o [i \in 1..n |-> 0]]

incrementRead(c, bits) == [c EXCEPT !.read = @ + bits]

\* a counter of calls instead of bits
incrementWriteCalls(c, bits) == [c EXCEPT !.written = @ + 1]

incrementWrite(c, bits) == [c EXCEPT !.written = @ + bits]

\* value & ((1 << num) - 1)
MaskValue(value, num) == And64(value, 0..(num - 1))

\* a fast path that right-aligns the field in its octets
FastOctetsRightAligned(value, num) ==
    SubSeq(PutUint64(Shl64(value, 8 * ((64 - num) \div 8))), 1, (num + 7) \div 8)

\* the fast path of Write: ceil(num/8) octets of value << (64 - num)
FastOctets(value, num) ==
    SubSeq(PutUint64(Shl64(value, 64 - num)), 1, (num + 7) \div 8)

\* a slow path that forgets the shift and fills octets from the low end
SlowChunkUnshifted(value, remaining, nbits, available) ==
    ByteAnd(Uint8(Shr64(value, remaining)), ByteMask(nbits))

\* chunk << shift of the slow path of Write: the next nbits bits of value,
\* placed below the bits already used in the current octet
SlowChunk(value, remaining, nbits, available) ==
    ByteShl(ByteAnd(Uint8(Shr64(value, remaining)), ByteMask(nbits)),
            available - nbits)

\* the loop of the slow path of Write
RECURSIVE WriteLoop(_, _, _)
WriteLoop(c, value, pending) ==
    IF pending = 0 THEN c
    ELSE LET c1 == IF c.offset = 8 \/ Len(c.Buff) = 0
                   THEN [grow(c, 1) EXCEPT !.offset = 0]
                   ELSE c
             available == 8 - c1.offset
             nbits     == Min(pending, available)
             remaining == pending - nbits
             pos       == Len(c1.Buff)
             c2 == [c1 EXCEPT
                      !.Buff[pos] = ByteOr(@, SlowChunk(value, remaining, nbits, available)),
                      !.offset = @ + nbits]
         IN  WriteLoop(c2, value, remaining)

\* Write(num, value): the codec after the call and whether it returned an error
Write(c, num, value) ==
    IF num = 0 \/ num > 64 THEN [c |-> c, err |-> TRUE]
    ELSE LET v == MaskValue(value, num) IN
         IF Len(c.Buff) = 0 \/ c.offset = 8
         THEN LET remainder == num % 8
                  c1 == [c EXCEPT !.Buff = @ \o FastOctets(v, num),
                                  !.offset = IF remainder = 0 THEN 8 ELSE remainder]
              IN  [c |-> incrementWrite(c1, num), err |-> FALSE]
         ELSE [c |-> incrementWrite(WriteLoop(c, v, num), num), err |-> FALSE]

\* a slow path that forgets to mask off the bits already consumed
ReadChunkUnmasked(octet, shift, reading) == ByteShr(octet, shift)

\* (c.Buff[0] >> shift) & mask of the slow path of Read
ReadChunk(octet, shift, reading) ==
    ByteAnd(ByteShr(octet, shift), ByteMask(reading))

\* the loop of the slow path of Read
RECURSIVE ReadLoop(_, _, _, _)
ReadLoop(c, result, pending, num) ==
    IF pending = 0
    THEN [c |-> incrementRead(c, num), val |-> result, err |-> FALSE]
    ELSE LET c1 == IF c.offset = 8
                   THEN [c EXCEPT !.Buff = Tail(@), !.offset = 0]
                   ELSE c
         IN  IF c.offset = 8 /\ Len(c1.Buff) = 0
             THEN [c |-> c1, val |-> Zero, err |-> TRUE]
             ELSE LET remaining == 8 - c1.offset
                      reading   == Min(pending, remaining)
                      shift     == remaining - reading
                      bits      == ReadChunk(c1.Buff[1], shift, reading)
                      c2 == [c1 EXCEPT !.offset = @ + reading]
                  IN  ReadLoop(c2, Or64(Shl64(result, reading), W(bits)),
                               pending - reading, num)

\* a fast path that wants one octet more than the field needs
ReadFastOneMore(c, num) ==
    LET c1 == [c EXCEPT !.Buff = Tail(@), !.offset = 0]
        nbytes == (num + 7) \div 8
    IN  IF Len(c1.Buff) <= nbytes THEN [c |-> c1, val |-> Zero, err |-> TRUE]
        ELSE LET tmp == [j \in 1..TMP_ARRAY_SIZE |->
                            IF j <= nbytes THEN c1.Buff[j] ELSE 0]
                 remainder == num % 8
                 c2 == [c1 EXCEPT !.Buff = Drop(@, nbytes - 1),
                                  !.offset = IF remainder = 0 THEN 8 ELSE remainder]
             IN  [c |-> incrementRead(c2, num), val |-> Shr64(Uint64(tmp), 64 - num),
                  err |-> FALSE]

\* the fast path of Read, entered with offset = 8
ReadFast(c, num) ==
    LET c1 == [c EXCEPT !.Buff = Tail(@), !.offset = 0]
        nbytes == (num + 7) \div 8
    IN  IF Len(c1.Buff) = 0 THEN [c |-> c1, val |-> Zero, err |-> TRUE]
        ELSE IF Len(c1.Buff) < nbytes THEN [c |-> c1, val |-> Zero, err |-> TRUE]
        ELSE LET tmp == [j \in 1..TMP_ARRAY_SIZE |->
                            IF j <= nbytes THEN c1.Buff[j] ELSE 0]
                 result == Shr64(Uint64(tmp), 64 - num)
                 remainder == num % 8
                 c2 == [c1 EXCEPT !.Buff = Drop(@, nbytes - 1),
                                  !.offset = IF remainder = 0 THEN 8 ELSE remainder]
             IN  [c |-> incrementRead(c2, num), val |-> result, err |-> FALSE]

\* Read(num): the codec after the call, the value returned and whether it is an error
Read(c, num) ==
    IF num = 0 THEN [c |-> c, val |-> Zero, err |-> FALSE]
    ELSE IF num > 64 THEN [c |-> c, val |-> Zero, err |-> TRUE]
    ELSE IF Len(c.Buff) = 0 THEN [c |-> c, val |-> Zero, err |-> TRUE]
    ELSE IF c.offset = 8 THEN ReadFast(c, num)
    ELSE ReadLoop(c, Zero, num, num)

\* the slow path of WriteBytes: Write(8, b) for each octet in order, stopping
\* at the first error; the run over data is the run over its first half
\* followed by the run over its second half
RECURSIVE WriteEach(_, _)
WriteEach(c, data) ==
    IF data = <<>> THEN [c |-> c, err |-> FALSE]
    ELSE IF Len(data) = 1 THEN Write(c, 8, W(data[1]))
    ELSE LET half == Len(data) \div 2
             res == WriteEach(c, SubSeq(data, 1, half))
         IN  IF res.err THEN res
             ELSE WriteEach(res.c, SubSeq(data, half + 1, Len(data)))

\* a WriteBytes that appends the octets whatever the bit offset
WriteBytesAppendOnly(c, data) ==
    IF Len(data) = 0 THEN [c |-> c, err |-> FALSE]
    ELSE [c |-> [incrementWrite(c, Len(data) * 8) EXCEPT
                    !.Buff = @ \o data, !.offset = 8],
          err |-> FALSE]

\* a WriteBytes whose fast path leaves the offset where it was
WriteBytesKeepOffset(c, data) ==
    IF Len(data) = 0 THEN [c |-> c, err |-> FALSE]
    ELSE IF Len(c.Buff) = 0 \/ c.offset = 8
    THEN [c |-> [incrementWrite(c, Len(data) * 8) EXCEPT !.Buff = @ \o data],
          err |-> FALSE]
    ELSE WriteEach(c, data)

WriteBytes(c, data) ==
    IF Len(data) = 0 THEN [c |-> c, err |-> FALSE]
    ELSE IF Len(c.Buff) = 0 \/ c.offset = 8
    THEN [c |-> [incrementWrite(c, Len(data) * 8) EXCEPT
                    !.Buff = @ \o data, !.offset = 8],
          err |-> FALSE]
    ELSE WriteEach(c, data)

\* the slow path of ReadBytes: Read(8) for each octet
RECURSIVE ReadEach(_, _, _)
ReadEach(c, n, result) ==
    IF n = 0 THEN [c |-> c, val |-> result, err |-> FALSE]
    ELSE LET res == Read(c, 8)
         IN  IF res.err THEN [c |-> res.c, val |-> <<>>, err |-> TRUE]
             ELSE ReadEach(res.c, n - 1, Append(result, Uint8(res.val)))

\* a ReadBytes that takes a negative count for an empty read
ReadBytesNoSign(c, n) ==
    IF n <= 0 THEN [c |-> c, val |-> <<>>, err |-> FALSE]
    ELSE IF c.offset = 0 \/ c.offset = 8
    THEN IF c.offset = 8 /\ Len(c.Buff) = 0
         THEN [c |-> c, val |-> <<>>, err |-> TRUE]
         ELSE LET c1 == IF c.offset = 8
                        THEN [c EXCEPT !.Buff = Tail(@), !.offset = 0]
                        ELSE c
              IN  IF Len(c1.Buff) < n
                  THEN [c |-> c1, val |-> <<>>, err |-> TRUE]
                  ELSE [c |-> incrementRead([c1 EXCEPT !.Buff = Drop(@, n)], n * 8),
                        val |-> SubSeq(c1.Buff, 1, n), err |-> FALSE]
    ELSE ReadEach(c, n, <<>>)

ReadBytes(c, n) ==
    IF n < 0 THEN [c |-> c, val |-> <<>>, err |-> TRUE]
    ELSE IF n = 0 THEN [c |-> c, val |-> <<>>, err |-> FALSE]
    ELSE IF c.offset = 0 \/ c.offset = 8
    THEN IF c.offset = 8 /\ Len(c.Buff) = 0
         THEN [c |-> c, val |-> <<>>, err |-> TRUE]
         ELSE LET c1 == IF c.offset = 8
                        THEN [c EXCEPT !.Buff = Tail(@), !.offset = 0]
                        ELSE c
              IN  IF Len(c1.Buff) < n
                  THEN [c |-> c1, val |-> <<>>, err |-> TRUE]
                  ELSE [c |-> incrementRead([c1 EXCEPT !.Buff = Drop(@, n)], n * 8),
                        val |-> SubSeq(c1.Buff, 1, n), err |-> FALSE]
    ELSE ReadEach(c, n, <<>>)

\* an Align that moves to the boundary without counting the padding
AlignUncounted(c) ==
    IF c.offset > 0 /\ c.offset < 8 THEN [c EXCEPT !.offset = 8] ELSE c

Align(c) ==
    IF c.offset > 0 /\ c.offset < 8
    THEN [incrementWrite(c, 8 - c.offset) EXCEPT !.offset = 8]
    ELSE c

Advance(c) ==
    IF c.offset > 0
    THEN [incrementRead(c, 8 - c.offset) EXCEPT !.offset = 8]
    ELSE c

-----------------------------------------------------------------------------
(* package per: integer widths *)

MAX_CONSTRAINED_LENGTH == 65536
FRAGMENT_SIZE == 16384

BitsNonNegativeBinaryInteger(value) ==
    IF value = Zero THEN 1 ELSE Len64(value)

OctetsNonNegativeBinaryIntegerLength(value) ==
    (BitsNonNegativeBinaryInteger(value) + 7) \div 8

\* a width that leaves out the sign bit of a positive value
BitsTwosComplementBinaryIntegerUnsigned(value) ==
    IF value = Zero THEN 1
    ELSE IF SLt(Zero, value) THEN Len64(value)
    ELSE Len64(Not64(value)) + 1

BitsTwosComplementBinaryInteger(value) ==
    IF value = Zero THEN 1
    ELSE IF SLt(Zero, value) THEN Len64(value) + 1
    ELSE Len64(Not64(value)) + 1

OctetsTwosComplementBinaryInteger(value) ==
    (BitsTwosComplementBinaryInteger(value) + 7) \div 8

-----------------------------------------------------------------------------
(* package per: whole numbers and length determinants.                      *)
(* An encoder operation takes the encoder's codec and its aligned flag and  *)
(* yields the codec after the call, the error flag and, for the length      *)
(* encoders, the returned count of units still to be announced.             *)

\* an optional bound (*uint64): <<>> is nil, <<x>> points to x
Nil == <<>>
Ptr(x) == <<x>>

Ok(res) == [c |-> res.c, err |-> res.err, pending |-> 0]

\* ub - lb + 1 in int64
RangeOf(lb, ub) == Add64(Sub64(ub, lb), One)

\* the switch of 11.5.7.1; no case matches a range below 2
BitFieldSize(vr) ==
    CASE vr = W(2) -> 1
      [] SLe(W(3), vr)   /\ SLe(vr, W(4))   -> 2
      [] SLe(W(5), vr)   /\ SLe(vr, W(8))   -> 3
      [] SLe(W(9), vr)   /\ SLe(vr, W(16))  -> 4
      [] SLe(W(17), vr)  /\ SLe(vr, W(32))  -> 5
      [] SLe(W(33), vr)  /\ SLe(vr, W(64))  -> 6
      [] SLe(W(65), vr)  /\ SLe(vr, W(128)) -> 7
      [] SLe(W(129), vr) /\ SLe(vr, W(255)) -> 8
      [] OTHER -> 0

\* a fragment size that never exceeds one 16K block
CalculateFragmentSizeSingle(n) == FRAGMENT_SIZE

CalculateFragmentSize(n) ==
    IF n >= 4 * FRAGMENT_SIZE THEN 4 * FRAGMENT_SIZE
    ELSE IF n >= 3 * FRAGMENT_SIZE THEN 3 * FRAGMENT_SIZE
    ELSE IF n >= 2 * FRAGMENT_SIZE THEN 2 * FRAGMENT_SIZE
    ELSE FRAGMENT_SIZE

\* the two-octet form without its 10 prefix
TwoOctetLengthUnmarked(n) == W(n)

\* (1 << 15) | n
TwoOctetLength(n) == Or64(Shl64(One, 15), W(n))

\* an aligned variant that forgets to align
PadForLengthNever(c, aligned) == c

\* the alignment that opens EncodeUnconstrainedLength
PadForLength(c, aligned) == IF aligned THEN Align(c) ELSE c

EncodeUnconstrainedLength(c, aligned, n) ==
    LET c1 == PadForLength(c, aligned) IN
    IF n <= 127 THEN Ok(Write(c1, 8, W(n)))
    ELSE IF n < FRAGMENT_SIZE THEN Ok(Write(c1, 16, TwoOctetLength(n)))
    ELSE LET m == CalculateFragmentSize(n)
             k == m \div FRAGMENT_SIZE
             res == Write(c1, 8, Or64(Shl64(W(3), 6), W(k)))
         IN  IF res.err THEN Ok(res)
             ELSE [c |-> res.c, err |-> FALSE, pending |-> n - m]

\* an unaligned variant that sizes the field for the range instead of range - 1
UnalignedBitsOfRange(vr) == BitsNonNegativeBinaryInteger(vr)

\* the field width of the unaligned variant
UnalignedBits(vr) == BitsNonNegativeBinaryInteger(Sub64(vr, One))

\* an aligned variant that also aligns the bit-field case
PadForBitFieldAlways(c) == Align(c)

\* the bit-field case (range <= 255) is written where the encoder stands
PadForBitField(c) == c

\* a large-range value that is written without alignment
PadForValueNever(c) == c

\* the alignment before the value octets of the indefinite length case
PadForValue(c) == Align(c)

RECURSIVE EncodeConstrainedWholeNumber(_, _, _, _, _)
RECURSIVE EncodeLengthDeterminant(_, _, _, _, _)

EncodeConstrainedWholeNumber(c, aligned, lb, ub, n) ==
    LET vr == RangeOf(lb, ub)
        value == Sub64(n, lb)
    IN
    IF vr = One THEN [c |-> c, err |-> FALSE, pending |-> 0]
    ELSE IF ~aligned THEN Ok(Write(c, UnalignedBits(vr), value))
    ELSE IF SLe(vr, W(255)) THEN Ok(Write(PadForBitField(c), BitFieldSize(vr), value))
    ELSE IF vr = W(256) THEN Ok(Write(Align(c), 8, value))
    ELSE IF SLe(W(257), vr) /\ SLe(vr, W(65536)) THEN Ok(Write(Align(c), 16, value))
    ELSE LET octets0 == OctetsNonNegativeBinaryIntegerLength(value)
             octets == IF octets0 = 0 THEN 1 ELSE octets0
             octetsRange == OctetsNonNegativeBinaryIntegerLength(Sub64(ub, lb))
             ld == EncodeLengthDeterminant(c, aligned, octets, Ptr(1), Ptr(octetsRange))
         IN  IF ld.err THEN [c |-> ld.c, err |-> TRUE, pending |-> 0]
             ELSE Ok(Write(PadForValue(ld.c), octets * 8, value))

EncodeLengthDeterminant(c, aligned, n, lb, ub) ==
    IF ub # Nil /\ lb # Nil /\ ub[1] < MAX_CONSTRAINED_LENGTH
    THEN LET res == EncodeConstrainedWholeNumber(c, aligned, W(lb[1]), W(ub[1]), W(n))
         IN  [c |-> res.c, err |-> res.err, pending |-> 0]
    ELSE EncodeUnconstrainedLength(c, aligned, n)

\* a semi-constrained encoder that always uses eight octets
SemiOctetsFixed(value) == 8

\* the number of octets of the semi-constrained case
SemiOctets(value) ==
    LET octets == OctetsNonNegativeBinaryIntegerLength(value)
    IN  IF octets = 0 THEN 1 ELSE octets

EncodeSemiConstrainedWholeNumber(c, aligned, lb, n) ==
    LET octets == SemiOctets(Sub64(n, lb))
        c1 == IF aligned THEN Align(c) ELSE c
        ld == EncodeLengthDeterminant(c1, aligned, octets, Nil, Nil)
    IN  IF ld.err THEN [c |-> ld.c, err |-> TRUE, pending |-> 0]
        ELSE Ok(Write(ld.c, octets * 8, Sub64(n, lb)))

\* an unconstrained encoder that sizes the field as for an unsigned value
UnconstrainedOctetsUnsigned(n) ==
    LET octets == OctetsNonNegativeBinaryIntegerLength(n)
    IN  IF octets = 0 THEN 1 ELSE octets

\* the number of octets of the unconstrained case
UnconstrainedOctets(n) ==
    LET octets == OctetsTwosComplementBinaryInteger(n)
    IN  IF octets = 0 THEN 1 ELSE octets

EncodeUnconstrainedWholeNumber(c, aligned, n) ==
    LET octets == UnconstrainedOctets(n)
        c1 == IF aligned THEN Align(c) ELSE c
        ld == EncodeLengthDeterminant(c1, aligned, octets, Nil, Nil)
    IN  IF ld.err THEN [c |-> ld.c, err |-> TRUE, pending |-> 0]
        ELSE Ok(Write(ld.c, octets * 8, n))

EncodeBoolean(c, value) ==
    IF value THEN Ok(Write(c, 1, One)) ELSE Ok(Write(c, 1, Zero))

\* an extension test that looks at the upper bound only
OutOfRootAboveOnly(value, lb, ub) ==
    ub # Nil /\ SLt(ub[1], value)

\* extended: value < *lb with lb present, or value > *ub with ub present
OutOfRoot(value, lb, ub) ==
    \/ lb # Nil /\ SLt(value, lb[1])
    \/ ub # Nil /\ SLt(ub[1], value)

EncodeInteger(c, aligned, value, lb, ub, extensible) ==
    LET extended == extensible /\ OutOfRoot(value, lb, ub)
        bit == IF extensible
               THEN Write(c, 1, IF extended THEN One ELSE Zero)
               ELSE [c |-> c, err |-> FALSE]
    IN  IF bit.err THEN Ok(bit)
        ELSE IF extended THEN EncodeUnconstrainedWholeNumber(bit.c, aligned, value)
        ELSE IF lb # Nil /\ ub # Nil /\ lb[1] = ub[1] THEN Ok(bit)
        ELSE IF lb # Nil /\ ub # Nil
             THEN EncodeConstrainedWholeNumber(bit.c, aligned, lb[1], ub[1], value)
        ELSE IF lb # Nil /\ ub = Nil
             THEN EncodeSemiConstrainedWholeNumber(bit.c, aligned, lb[1], value)
        ELSE EncodeUnconstrainedWholeNumber(bit.c, aligned, value)

\* a normally small number that takes 64 for small as well
EncodeNormallySmallNonNegativeWholeNumberUpTo64(c, aligned, n) ==
    LET Then(bit) ==
            IF bit.err THEN Ok(bit)
            ELSE IF ULe(n, W(64)) THEN Ok(Write(bit.c, 6, n))
            ELSE EncodeSemiConstrainedWholeNumber(bit.c, aligned, Zero, n)
    IN  Then(Write(c, 1, IF ULe(n, W(64)) THEN Zero ELSE One))

\* n is a uint64; int64(n) is the same word
EncodeNormallySmallNonNegativeWholeNumber(c, aligned, n) ==
    LET Then(bit) ==
            IF bit.err THEN Ok(bit)
            ELSE IF ULe(n, W(63)) THEN Ok(Write(bit.c, 6, n))
            ELSE EncodeSemiConstrainedWholeNumber(bit.c, aligned, Zero, n)
    IN  Then(Write(c, 1, IF ULe(n, W(63)) THEN Zero ELSE One))

\* n is a uint64; n - 1 wraps for n = 0
EncodeNormallySmallLength(c, aligned, n) ==
    LET Then(bit) ==
            IF bit.err THEN Ok(bit)
            ELSE IF ULe(n, W(64)) THEN Ok(Write(bit.c, 6, Sub64(n, One)))
            ELSE EncodeUnconstrainedLength(bit.c, aligned, ToNat(n))
    IN  Then(Write(c, 1, IF ULe(n, W(64)) THEN Zero ELSE One))

\* an enumerated encoder that leaves out the 0 bit of a value in the root
EncodeEnumeratedNoMarker(c, aligned, value, count, extensible) ==
    LET InRoot(bit) ==
            IF bit.err THEN Ok(bit)
            ELSE EncodeConstrainedWholeNumber(bit.c, aligned, Zero, Sub64(count, One),
                                              value)
        Added(bit) ==
            IF bit.err THEN Ok(bit)
            ELSE EncodeNormallySmallNonNegativeWholeNumber(bit.c, aligned,
                                                           Sub64(value, count))
    IN  IF extensible /\ ULe(count, value) THEN Added(Write(c, 1, One))
        ELSE InRoot([c |-> c, err |-> FALSE])

\* value and count are uint64; ub = int64(count - 1)
EncodeEnumerated(c, aligned, value, count, extensible) ==
    LET InRoot(bit) ==
            IF bit.err THEN Ok(bit)
            ELSE EncodeConstrainedWholeNumber(bit.c, aligned, Zero, Sub64(count, One),
                                              value)
        Added(bit) ==
            IF bit.err THEN Ok(bit)
            ELSE EncodeNormallySmallNonNegativeWholeNumber(bit.c, aligned,
                                                           Sub64(value, count))
    IN  IF extensible /\ ULe(count, value) THEN Added(Write(c, 1, One))
        ELSE InRoot(IF extensible THEN Write(c, 1, Zero) ELSE [c |-> c, err |-> FALSE])

-----------------------------------------------------------------------------
(* package per: bit strings and octet strings.  A string encoder yields the *)
(* codec after the call and the error flag.  A slice or index expression    *)
(* that is out of range makes the Go call panic; the model reports a panic  *)
(* as an error, with the codec as the panic leaves it.                      *)

NoError(c) == [c |-> c, err |-> FALSE]
Panic(c) == [c |-> c, err |-> TRUE]

Done(res) == [c |-> res.c, err |-> res.err]

\* a tail that takes the low bits of the last octet
TailBitsLow(last, remaining) == ByteAnd(last, ByteMask(remaining))

\* last >> (8 - remaining): the top bits of the partial octet
TailBits(last, remaining) == ByteShr(last, 8 - remaining)

WriteBits(c, data, count) ==
    IF count = 0 THEN NoError(c)
    ELSE LET num == count \div 8
             remaining == count % 8
         IN  IF num > Len(data) THEN Panic(c)
             ELSE LET Rest(whole) ==
                          IF whole.err THEN whole
                          ELSE IF remaining > 0
                               THEN IF num >= Len(data) THEN Panic(whole.c)
                                    ELSE Write(whole.c, remaining,
                                               W(TailBits(data[num + 1], remaining)))
                               ELSE whole
                  IN  Rest(IF num > 0 THEN WriteBytes(c, SubSeq(data, 1, num))
                           ELSE NoError(c))

\* the loop of EncodeBitStringFragments, entered with offset < count
RECURSIVE BitStringFragmentsLoop(_, _, _, _, _, _, _)
BitStringFragmentsLoop(c, aligned, value, count, lb, ub, offset) ==
    LET remaining == count - offset
        nbytes == offset \div 8
        Written(wr, pending, length) ==
            IF wr.err THEN wr
            ELSE IF pending = 0 THEN wr
            ELSE IF offset + length < count
                 THEN BitStringFragmentsLoop(wr.c, aligned, value, count, lb, ub,
                                             offset + length)
                 ELSE wr
        Fragment(ld, length) ==
            IF ld.err THEN Done(ld)
            ELSE IF nbytes > Len(value) THEN Panic(ld.c)
            ELSE Written(WriteBits(ld.c, Drop(value, nbytes), length),
                         ld.pending, length)
        Determined(ld) ==
            Fragment(ld, IF ld.pending = 0 THEN remaining ELSE remaining - ld.pending)
    IN  Determined(EncodeLengthDeterminant(c, aligned, remaining, lb, ub))

EncodeBitStringFragments(c, aligned, value, count, lb, ub) ==
    LET c1 == IF aligned THEN Align(c) ELSE c
    IN  IF count = 0 THEN Done(EncodeLengthDeterminant(c1, aligned, 0, lb, ub))
        ELSE BitStringFragmentsLoop(c1, aligned, value, count, lb, ub, 0)

\* extended: the length is below a present lb or above a present ub
LengthOutOfRoot(n, lb, ub) ==
    \/ lb # Nil /\ n < lb[1]
    \/ ub # Nil /\ n > ub[1]

\* value is an asn1.BitString: [Bytes, BitLength]
EncodeBitString(c, aligned, value, lb, ub, extensible) ==
    LET extended == extensible /\ LengthOutOfRoot(value.BitLength, lb, ub)
        Body(bit) ==
            IF bit.err THEN bit
            ELSE IF extended
                 THEN EncodeBitStringFragments(bit.c, aligned, value.Bytes,
                                               value.BitLength, Ptr(0), Nil)
            ELSE IF ub # Nil /\ ub[1] = 0 THEN bit
            ELSE IF lb # Nil /\ ub # Nil /\ lb[1] = ub[1] /\ ub[1] <= 16
                 THEN WriteBits(bit.c, value.Bytes, ub[1])
            ELSE IF lb # Nil /\ ub # Nil /\ lb[1] = ub[1] /\ ub[1] < 65536
                 THEN WriteBits(IF aligned THEN Align(bit.c) ELSE bit.c, value.Bytes,
                                ub[1])
            ELSE EncodeBitStringFragments(IF aligned THEN Align(bit.c) ELSE bit.c,
                                          aligned, value.Bytes, value.BitLength, lb, ub)
    IN  Body(IF extensible
             THEN Write(c, 1, IF extended THEN One ELSE Zero)
             ELSE NoError(c))

\* the loop of EncodeOctetStringFragments, entered with offset < len(value)
RECURSIVE OctetStringFragmentsLoop(_, _, _, _, _, _)
OctetStringFragmentsLoop(c, aligned, value, lb, ub, offset) ==
    LET n == Len(value)
        remaining == n - offset
        Written(wr, pending, length) ==
            IF wr.err THEN wr
            ELSE IF pending = 0 THEN wr
            ELSE IF offset + length < n
                 THEN OctetStringFragmentsLoop(wr.c, aligned, value, lb, ub,
                                               offset + length)
                 ELSE wr
        Fragment(ld, length) ==
            IF ld.err THEN Done(ld)
            ELSE Written(WriteBytes(ld.c, SubSeq(value, offset + 1, offset + length)),
                         ld.pending, length)
        Determined(ld) ==
            Fragment(ld, IF ld.pending = 0 THEN remaining ELSE remaining - ld.pending)
    IN  Determined(EncodeLengthDeterminant(c, aligned, remaining, lb, ub))

EncodeOctetStringFragments(c, aligned, value, lb, ub) ==
    LET c1 == IF aligned THEN Align(c) ELSE c
    IN  IF Len(value) = 0 THEN Done(EncodeLengthDeterminant(c1, aligned, 0, lb, ub))
        ELSE OctetStringFragmentsLoop(c1, aligned, value, lb, ub, 0)

\* a fixed-length test that takes three octets for short as well
ShortOctetStringUpTo3(lb, ub) ==
    lb # Nil /\ ub # Nil /\ lb[1] = ub[1] /\ ub[1] <= 3

\* 17.6: fixed length of at most two octets
ShortOctetString(lb, ub) ==
    lb # Nil /\ ub # Nil /\ lb[1] = ub[1] /\ ub[1] <= 2

EncodeOctetString(c, aligned, value, lb, ub, extensible) ==
    LET n == Len(value)
        extended == extensible /\ LengthOutOfRoot(n, lb, ub)
        Body(bit) ==
            IF bit.err THEN bit
            ELSE IF extended
                 THEN EncodeOctetStringFragments(bit.c, aligned, value, Ptr(0), Nil)
            ELSE IF ub # Nil /\ ub[1] = 0 THEN bit
            ELSE IF ShortOctetString(lb, ub) THEN WriteBytes(bit.c, value)
            ELSE IF lb # Nil /\ ub # Nil /\ lb[1] = ub[1] /\ ub[1] < 65536
                 THEN WriteBytes(IF aligned THEN Align(bit.c) ELSE bit.c, value)
            ELSE EncodeOctetStringFragments(bit.c, aligned, value, lb, ub)
    IN  Body(IF extensible
             THEN Write(c, 1, IF extended THEN One ELSE Zero)
             ELSE NoError(c))

-----------------------------------------------------------------------------
(* package per: real values.  A float64 is the word of math.Float64bits:    *)
(* bit 63 the sign, bits 62..52 the biased exponent, bits 51..0 the         *)
(* fraction.  A mantissa is an int64 word, an exponent an integer.          *)

\* the loop of MakeReal: mantissa / 2 of an even int64, exponent + 1
RECURSIVE HalveWhileEven(_, _)
HalveWhileEven(mantissa, exponent) ==
    IF mantissa # Zero /\ 0 \notin mantissa
    THEN HalveWhileEven(Shr64(mantissa, 1) \cup (mantissa \cap {63}), exponent + 1)
    ELSE [mantissa |-> mantissa, exponent |-> exponent]

MakeReal(value) ==
    LET bexp == ToNat(Shr64(value, 52) \cap 0..10)
        frac == value \cap 0..51
        magnitude == IF bexp = 0 THEN frac ELSE frac \cup {52}
        exponent == IF bexp = 0 THEN -1022 - 52 ELSE bexp - 1023 - 52
    IN  IF value \ {63} = Zero THEN [mantissa |-> Zero, exponent |-> 0]
        ELSE IF bexp = 2047 THEN [mantissa |-> Zero, exponent |-> 0]
        ELSE HalveWhileEven(IF 63 \in value THEN Sub64(Zero, magnitude) ELSE magnitude,
                            exponent)

\* the loop of EncodeReal: mantissa >>= 1 of a positive even mantissa
RECURSIVE ShiftWhileEven(_, _)
ShiftWhileEven(mantissa, exponent) ==
    IF SLt(Zero, mantissa) /\ 0 \notin mantissa
    THEN ShiftWhileEven(Shr64(mantissa, 1), exponent + 1)
    ELSE [mantissa |-> mantissa, exponent |-> exponent]

\* a mantissa that always takes seven octets
MantissaOctetsFixed(mantissa) == 7

\* (bits.Len64(uint64(mantissa)) + 7) / 8
MantissaOctets(mantissa) == (Len64(mantissa) + 7) \div 8

\* the contents octets of a non-zero finite value, built in a writer of their own;
\* the errors of the writes are not looked at
RealContents(negative, mantissa, exponent) ==
    LET length == OctetsTwosComplementBinaryInteger(I64(exponent))
        Mantissa(temp) ==
            IF SLt(Zero, mantissa)
            THEN Write(temp, 8 * MantissaOctets(mantissa), mantissa).c
            ELSE temp
        Exponent(temp) ==
            CASE length = 1 -> Write(temp, 8, I64(exponent)).c
              [] length = 2 -> Write(temp, 16, I64(exponent)).c
              [] length = 3 ->
                    Write(temp, 24, IF exponent < 0 THEN Add64({24}, I64(exponent))
                                    ELSE I64(exponent)).c
              [] OTHER ->
                    Write(Write(temp, 8, W(length)).c, 8 * length,
                          IF exponent < 0
                          THEN Add64(Shl64(One, 8 * length), I64(exponent))
                          ELSE I64(exponent)).c
        Format(temp) ==
            Write(temp, 2, IF length > 3 THEN W(3) ELSE W(length - 1)).c
        Flags(temp) ==
            Write(Write(Write(Write(temp, 1, One).c,
                              1, IF negative THEN One ELSE Zero).c,
                        2, Zero).c,
                  2, Zero).c
    IN  Bytes(Mantissa(Exponent(Format(Flags(CreateWriter)))))

EncodeReal(c, aligned, value) ==
    LET bexp == ToNat(Shr64(value, 52) \cap 0..10)
        frac == value \cap 0..51
        isNaN == bexp = 2047 /\ frac # Zero
        isInf == bexp = 2047 /\ frac = Zero
        c1 == IF aligned THEN Align(c) ELSE c
        Special(len) ==
            IF len.err THEN len
            ELSE Write(len.c, 8, CASE isNaN -> W(66)
                                   [] isInf /\ 63 \notin value -> W(64)
                                   [] isInf /\ 63 \in value -> W(65)
                                   [] OTHER -> W(67))
        Contents(made) ==
            LET negative == SLt(made.mantissa, Zero)
                positive == IF negative THEN Sub64(Zero, made.mantissa)
                            ELSE made.mantissa
                Normal(odd) == RealContents(negative, odd.mantissa, odd.exponent)
            IN  Normal(ShiftWhileEven(positive, made.exponent))
    IN  IF isNaN \/ isInf \/ value = {63} THEN Special(Write(c1, 8, One))
        ELSE IF value = Zero THEN Write(c1, 8, Zero)
        ELSE EncodeOctetString(c, aligned, Contents(MakeReal(value)), Nil, Nil, FALSE)

-----------------------------------------------------------------------------
(* A writer session followed by a reader session over the writer's Bytes() *)

\* inputs of the calls
Widths == {1, 3, 12, 64}
Pattern == Not64(W(4))                      \* 0xFFFFFFFFFFFFFFFB
ValuesFor(num) == {MaskValue(Pattern, num), Pattern, W(5)}
Datas  == {<<>>, <<165>>, <<255, 1>>}

NoCodec == CreateWriter

CodecInit ==
    /\ w = CreateWriter
    /\ r = NoCodec
    /\ log = <<>>
    /\ phase = "write"
    /\ got = <<>>

\* w.Write(num, value)
DoWrite(num, value) ==
    /\ phase = "write"
    /\ Len(log) < MaxFields
    /\ LET res == Write(w, num, value)
       IN  /\ w' = res.c
           /\ log' = Append(log, [kind |-> "bits", num |-> num, value |-> value,
                                  data |-> <<>>, err |-> res.err])
    /\ UNCHANGED <<r, phase, got>>

\* w.WriteBytes(data)
DoWriteBytes(data) ==
    /\ phase = "write"
    /\ Len(log) < MaxFields
    /\ LET res == WriteBytes(w, data)
       IN  /\ w' = res.c
           /\ log' = Append(log, [kind |-> "bytes", num |-> 0, value |-> Zero,
                                  data |-> data, err |-> res.err])
    /\ UNCHANGED <<r, phase, got>>

\* w.Align()
DoAlign ==
    /\ phase = "write"
    /\ Len(log) < MaxFields
    /\ w' = Align(w)
    /\ log' = Append(log, [kind |-> "align", num |-> 0, value |-> Zero,
                           data |-> <<>>, err |-> FALSE])
    /\ UNCHANGED <<r, phase, got>>

\* CreateReader(w.Bytes())
DoCreateReader ==
    /\ phase = "write"
    /\ r' = CreateReader(Bytes(w))
    /\ phase' = "read"
    /\ UNCHANGED <<w, log, got>>

\* the reader call that matches the next call of the log:
\* Read(num), ReadBytes(len(data)) or Advance()
DoReadNext ==
    /\ phase = "read"
    /\ Len(got) < Len(log)
    /\ LET f == log[Len(got) + 1] IN
       \/ /\ f.kind = "bits"
          /\ LET res == Read(r, f.num)
             IN  /\ r' = res.c
                 /\ got' = Append(got, [value |-> res.val, data |-> <<>>, err |-> res.err])
       \/ /\ f.kind = "bytes"
          /\ LET res == ReadBytes(r, Len(f.data))
             IN  /\ r' = res.c
                 /\ got' = Append(got, [value |-> Zero, data |-> res.val, err |-> res.err])
       \/ /\ f.kind = "align"
          /\ r' = Advance(r)
          /\ got' = Append(got, [value |-> Zero, data |-> <<>>, err |-> FALSE])
    /\ UNCHANGED <<w, log, phase>>


-----------------------------------------------------------------------------
(* The sessions of TestWriteReadBits: the fields bit = 1..64 with value     *)
(* bit, alone (first block) or each followed by WriteBytes of the value in  *)
(* hexadecimal, (bit + 3) / 4 characters wide (second block); the reader    *)
(* phase is that of the sessions above                                      *)

TestFields == 64

\* the ASCII code of a lower-case hexadecimal digit
HexDigit(v) == IF v < 10 THEN 48 + v ELSE 87 + v

\* fmt.Sprintf("%0*x", length, value)
RECURSIVE Sprintf0x(_, _)
Sprintf0x(length, value) ==
    IF value < 16
    THEN [i \in 1..(length - 1) |-> 48] \o <<HexDigit(value)>>
    ELSE Sprintf0x(length - 1, value \div 16) \o <<HexDigit(value % 16)>>

\* w.Write(bit, uint64(bit)) for the next bit of the loop
DoTestWrite ==
    /\ phase = "write"
    /\ (Len(log) >= 2 /\ log[2].kind = "bytes") => log[Len(log)].kind = "bytes"
    /\ LET bit == (IF Len(log) >= 2 /\ log[2].kind = "bytes"
                   THEN Len(log) \div 2 ELSE Len(log)) + 1
           res == Write(w, bit, W(bit))
       IN  /\ bit <= TestFields
           /\ w' = res.c
           /\ log' = Append(log, [kind |-> "bits", num |-> bit, value |-> W(bit),
                                  data |-> <<>>, err |-> res.err])
    /\ UNCHANGED <<r, phase, got>>

\* w.WriteBytes([]byte(data)) after the Write of the second block
DoTestWriteBytes ==
    /\ phase = "write"
    /\ Len(log) >= 1
    /\ log[Len(log)].kind = "bits"
    /\ Len(log) >= 2 => log[2].kind = "bytes"
    /\ LET bit == log[Len(log)].num
           data == Sprintf0x((bit + 3) \div 4, bit)
           res == WriteBytes(w, data)
       IN  /\ w' = res.c
           /\ log' = Append(log, [kind |-> "bytes", num |-> 0, value |-> Zero,
                                  data |-> data, err |-> res.err])
    /\ UNCHANGED <<r, phase, got>>

NextTest ==
    \/ DoTestWrite /\ UNCHANGED perVars
    \/ DoTestWriteBytes /\ UNCHANGED perVars
    \/ DoCreateReader /\ UNCHANGED perVars
    \/ DoReadNext /\ UNCHANGED perVars

-----------------------------------------------------------------------------
(* Sessions of single calls, valid or not: a writer that is given any       *)
(* width, or a reader over a given input that is asked for any width and    *)
(* count in any order.  The reader session keeps its input in log and its   *)
(* last call in got: the call, its result, and whether every call so far    *)
(* has succeeded.                                                           *)

\* r := CreateReader(data)
DoOpenReader(data) ==
    /\ phase = "write"
    /\ log = <<>>
    /\ r' = CreateReader(data)
    /\ phase' = "read"
    /\ log' = <<[kind |-> "input", num |-> 0, value |-> Zero, data |-> data,
                 err |-> FALSE]>>
    /\ UNCHANGED <<w, got>>

\* r.Read(num)
DoRead(num) ==
    /\ phase = "read"
    /\ LET res == Read(r, num)
       IN  /\ r' = res.c
           /\ got' = <<[op |-> "bits", arg |-> num, value |-> res.val, data |-> <<>>,
                        err |-> res.err,
                        clean |-> ~res.err /\ (IF got = <<>> THEN TRUE ELSE got[1].clean)]>>
    /\ UNCHANGED <<w, log, phase>>

\* r.ReadBytes(n)
DoReadBytes(n) ==
    /\ phase = "read"
    /\ LET res == ReadBytes(r, n)
       IN  /\ r' = res.c
           /\ got' = <<[op |-> "bytes", arg |-> n, value |-> Zero, data |-> res.val,
                        err |-> res.err,
                        clean |-> ~res.err /\ (IF got = <<>> THEN TRUE ELSE got[1].clean)]>>
    /\ UNCHANGED <<w, log, phase>>

\* r.Advance()
DoAdvance ==
    /\ phase = "read"
    /\ r' = Advance(r)
    /\ got' = <<[op |-> "advance", arg |-> 0, value |-> Zero, data |-> <<>>,
                 err |-> FALSE,
                 clean |-> IF got = <<>> THEN TRUE ELSE got[1].clean]>>
    /\ UNCHANGED <<w, log, phase>>

NextCalls ==
    \/ \E num \in {0, 3, 12, 65} : DoWrite(num, Pattern) /\ UNCHANGED perVars
    \/ DoWriteBytes(<<165, 60>>) /\ UNCHANGED perVars
    \/ DoAlign /\ UNCHANGED perVars
    \/ \E data \in {<<>>, <<165>>, <<165, 60, 255>>,
                     <<167, 174, 181, 188, 195, 202, 209, 216, 223>>} :
          DoOpenReader(data) /\ UNCHANGED perVars
    \/ \E num \in {0, 1, 5, 8, 12, 64, 65} : DoRead(num) /\ UNCHANGED perVars
    \/ \E n \in {-1, 0, 1, 2} : DoReadBytes(n) /\ UNCHANGED perVars
    \/ DoAdvance /\ UNCHANGED perVars

-----------------------------------------------------------------------------
(* package per: the decoder of the whole numbers *)

DecodeBoolean(c) == Read(c, 1)

RECURSIVE DecodeConstrainedWholeNumber(_, _, _, _)
DecodeConstrainedWholeNumber(c, aligned, lb, ub) ==
    LET vr == RangeOf(lb, ub)
        Plus(res) == [c |-> res.c, err |-> res.err,
                      val |-> IF res.err THEN Zero ELSE Add64(res.val, lb)]
    IN
    IF vr = One THEN [c |-> c, val |-> lb, err |-> FALSE]
    ELSE IF ~aligned THEN Plus(Read(c, UnalignedBits(vr)))
    ELSE IF SLe(vr, W(255)) THEN Plus(Read(c, BitFieldSize(vr)))
    ELSE IF vr = W(256) THEN Plus(Read(Advance(c), 8))
    ELSE IF SLe(W(257), vr) /\ SLe(vr, W(65536)) THEN Plus(Read(Advance(c), 16))
    ELSE LET octetsRange == OctetsNonNegativeBinaryIntegerLength(Sub64(ub, lb))
             ld == DecodeConstrainedWholeNumber(c, aligned, W(1), W(octetsRange))
         IN  IF ld.err THEN [c |-> ld.c, val |-> Zero, err |-> TRUE]
             ELSE Plus(Read(Advance(ld.c), ToNat(ld.val) * 8))

-----------------------------------------------------------------------------
(* An encoder session: one-bit fields, then one call of a whole-number or   *)
(* length encoder, then a decoder session over the encoder's Bytes()        *)

MinInt64 == {63}
MaxInt64 == 0..62

SmallRanges ==
    {1, 2, 3, 4, 5, 8, 9, 16, 17, 32, 33, 64, 65, 128, 129, 255, 256, 257, 65536}

\* (lb, ub, n) with lb <= n <= ub
CwnInputs ==
    UNION {{<<I64(-3), I64(rg - 4), I64(o - 3)>> : o \in {0, rg \div 2, rg - 1}} :
                rg \in SmallRanges}
    \cup {<<I64(0), I64(255), I64(42)>>, <<I64(0), I64(7), I64(5)>>}
    \cup {<<I64(-1), I64(65535), x>> : x \in {I64(-1), I64(254), I64(255), I64(65535)}}
    \cup {<<I64(10), {24}, x>> : x \in {I64(10), I64(300), I64(70000), {24}}}
    \cup {<<I64(0), {62}, x>> : x \in {I64(0), {31}, {39}, {47}, {55}, {56}, {62}}}
    \cup {<<MinInt64, MaxInt64, x>> : x \in {MinInt64, I64(0), MaxInt64}}
    \cup {<<I64(0), MaxInt64, I64(5)>>, <<I64(-1), MaxInt64, MaxInt64>>}

\* (lb, n) with lb <= n
SemiInputs ==
    {<<I64(lb), I64(lb + o)>> :
        <<lb, o>> \in {-3, 0} \X {0, 1, 255, 256, 65535, 65536, 16777216}}
    \cup {<<I64(0), {39}>>, <<I64(1), {48}>>, <<I64(0), MaxInt64>>,
          <<MinInt64, I64(0)>>, <<MinInt64, MaxInt64>>}

UnconstrainedInputs ==
    {I64(i) : i \in {0, 1, -1, 127, 128, -128, -129, 32767, 32768, -32768, -32769,
                     8388607, 8388608, -8388608, -8388609}}
    \cup {{39}, Not64({39}), {47}, WordBits \ (0..46), MaxInt64, MinInt64}

LengthInputs ==
    {0, 1, 127, 128, 200, 16383, 16384, 32767, 32768, 49151, 49152, 65535, 65536,
     70000, 81919, 81920, 100000}

\* the one-bit fields before the call alternate, starting with TRUE
PrefixValues(k) == {k % 2 = 0}

\* (value, lb, ub, extensible) of EncodeInteger; a bound is Nil or Ptr(word)
IntegerBounds ==
    {<<Nil, Nil>>, <<Ptr(I64(0)), Nil>>, <<Nil, Ptr(I64(10))>>,
     <<Ptr(I64(0)), Ptr(I64(255))>>, <<Ptr(I64(5)), Ptr(I64(5))>>,
     <<Ptr(I64(-3)), Ptr(I64(65532))>>}

IntegerValues == {I64(-4), I64(0), I64(5), I64(7), I64(300), I64(70000)}

NoCall == [op |-> "none", lb |-> Zero, ub |-> Zero, n |-> Zero, len |-> 0,
           pre |-> CreateWriter, err |-> FALSE, pending |-> 0,
           lbp |-> Nil, ubp |-> Nil, ext |-> FALSE, data |-> <<>>, bitlen |-> 0]

NoDecoder == [codec |-> NoCodec, state |-> "none", val |-> Zero, err |-> FALSE]

PerInit ==
    /\ e \in {[codec |-> CreateWriter, aligned |-> a] : a \in BOOLEAN}
    /\ call = NoCall
    /\ d = NoDecoder

\* e.EncodeBoolean(value), before the call under study
DoEncodeBoolean(value) ==
    /\ call.op = "none"
    /\ e.codec.written < MaxPrefix
    /\ e' = [e EXCEPT !.codec = EncodeBoolean(e.codec, value).c]
    /\ UNCHANGED <<call, d>>

\* e.EncodeConstrainedWholeNumber(lb, ub, n)
DoEncodeConstrainedWholeNumber(lb, ub, n) ==
    /\ call.op = "none"
    /\ LET res == EncodeConstrainedWholeNumber(e.codec, e.aligned, lb, ub, n)
       IN  /\ e' = [e EXCEPT !.codec = res.c]
           /\ call' = [NoCall EXCEPT !.op = "cwn", !.lb = lb, !.ub = ub, !.n = n,
                          !.pre = e.codec, !.err = res.err, !.pending = res.pending]
    /\ UNCHANGED d

\* e.EncodeSemiConstrainedWholeNumber(lb, n)
DoEncodeSemiConstrainedWholeNumber(lb, n) ==
    /\ call.op = "none"
    /\ LET res == EncodeSemiConstrainedWholeNumber(e.codec, e.aligned, lb, n)
       IN  /\ e' = [e EXCEPT !.codec = res.c]
           /\ call' = [NoCall EXCEPT !.op = "semi", !.lb = lb, !.n = n,
                          !.pre = e.codec, !.err = res.err, !.pending = res.pending]
    /\ UNCHANGED d

\* e.EncodeUnconstrainedWholeNumber(n)
DoEncodeUnconstrainedWholeNumber(n) ==
    /\ call.op = "none"
    /\ LET res == EncodeUnconstrainedWholeNumber(e.codec, e.aligned, n)
       IN  /\ e' = [e EXCEPT !.codec = res.c]
           /\ call' = [NoCall EXCEPT !.op = "unconstrained", !.n = n,
                          !.pre = e.codec, !.err = res.err, !.pending = res.pending]
    /\ UNCHANGED d

\* e.EncodeUnconstrainedLength(n)
DoEncodeUnconstrainedLength(n) ==
    /\ call.op = "none"
    /\ LET res == EncodeUnconstrainedLength(e.codec, e.aligned, n)
       IN  /\ e' = [e EXCEPT !.codec = res.c]
           /\ call' = [NoCall EXCEPT !.op = "length", !.len = n,
                          !.pre = e.codec, !.err = res.err, !.pending = res.pending]
    /\ UNCHANGED d

\* e.EncodeInteger(value, lb, ub, extensible)
DoEncodeInteger(value, lb, ub, extensible) ==
    /\ call.op = "none"
    /\ LET res == EncodeInteger(e.codec, e.aligned, value, lb, ub, extensible)
       IN  /\ e' = [e EXCEPT !.codec = res.c]
           /\ call' = [NoCall EXCEPT !.op = "integer", !.n = value, !.lbp = lb,
                          !.ubp = ub, !.ext = extensible,
                          !.pre = e.codec, !.err = res.err, !.pending = res.pending]
    /\ UNCHANGED d

\* NewDecoder(e.Bytes(), aligned) after a successful constrained encode
DoNewDecoder ==
    /\ call.op = "cwn" /\ ~call.err
    /\ d.state = "none"
    /\ d' = [NoDecoder EXCEPT !.codec = CreateReader(Bytes(e.codec)), !.state = "open"]
    /\ UNCHANGED <<e, call>>

\* d.DecodeBoolean() for a one-bit field that precedes the whole number
DoDecodeBoolean ==
    /\ d.state = "open"
    /\ d.codec.read < call.pre.written
    /\ LET res == DecodeBoolean(d.codec)
       IN  d' = [d EXCEPT !.codec = res.c, !.err = res.err]
    /\ UNCHANGED <<e, call>>

\* d.DecodeConstrainedWholeNumber(lb, ub)
DoDecodeConstrainedWholeNumber ==
    /\ d.state = "open"
    /\ d.codec.read = call.pre.written
    /\ LET res == DecodeConstrainedWholeNumber(d.codec, e.aligned, call.lb, call.ub)
       IN  d' = [d EXCEPT !.codec = res.c, !.val = res.val, !.err = res.err,
                          !.state = "done"]
    /\ UNCHANGED <<e, call>>

InitPER == PerInit /\ CodecInit

NextPER ==
    \/ \E value \in PrefixValues(e.codec.written) :
          DoEncodeBoolean(value) /\ UNCHANGED codecVars
    \/ \E t \in CwnInputs :
          DoEncodeConstrainedWholeNumber(t[1], t[2], t[3]) /\ UNCHANGED codecVars
    \/ \E t \in SemiInputs :
          DoEncodeSemiConstrainedWholeNumber(t[1], t[2]) /\ UNCHANGED codecVars
    \/ \E n \in UnconstrainedInputs :
          DoEncodeUnconstrainedWholeNumber(n) /\ UNCHANGED codecVars
    \/ \E n \in LengthInputs : DoEncodeUnconstrainedLength(n) /\ UNCHANGED codecVars
    \/ \E value \in IntegerValues : \E b \in IntegerBounds : \E extensible \in BOOLEAN :
          DoEncodeInteger(value, b[1], b[2], extensible) /\ UNCHANGED codecVars
    \/ DoNewDecoder /\ UNCHANGED codecVars
    \/ DoDecodeBoolean /\ UNCHANGED codecVars
    \/ DoDecodeConstrainedWholeNumber /\ UNCHANGED codecVars

SpecPER == InitPER /\ [][NextPER]_vars

-----------------------------------------------------------------------------
(* An encoder session for the strings: one-bit fields, then one call of     *)
(* EncodeOctetString or EncodeBitString                                     *)

\* the octets of the values: no two neighbours alike, low bits set
Octets(n) == [i \in 1..n |-> (7 * i + 160) % 256]

BitValue(len) == [Bytes |-> Octets((len + 7) \div 8), BitLength |-> len]

NoBounds == <<Nil, Nil>>
Fixed(n) == <<Ptr(n), Ptr(n)>>

\* (lb, ub) of EncodeOctetString
OctetBounds ==
    {NoBounds, <<Ptr(0), Nil>>, <<Ptr(0), Ptr(10)>>, <<Ptr(1), Ptr(300)>>,
     Fixed(0), Fixed(1), Fixed(2), Fixed(3), Fixed(5), Fixed(65535), Fixed(65536)}

\* (value, bounds, extensible) of EncodeOctetString
OctetStringInputs ==
    {Octets(n) : n \in {0, 1, 2, 3, 5, 130}} \X OctetBounds \X BOOLEAN

\* (value, bounds, extensible) of EncodeBitString
BitStringInputs ==
    UNION {{BitValue(len)} \X {NoBounds, <<Ptr(0), Nil>>, <<Ptr(0), Ptr(len + 5)>>,
                               Fixed(0), Fixed(8), Fixed(len)} \X BOOLEAN :
                len \in {0, 1, 7, 8, 12, 16, 17, 27, 130}}

-----------------------------------------------------------------------------
(* An encoder session: one-bit fields, then one call of an encoder of a     *)
(* normally small number, a normally small length or an enumerated value.   *)
(* The call record keeps the number in n, the count of an enumeration in ub *)

\* e.EncodeNormallySmallNonNegativeWholeNumber(n)
DoEncodeNormallySmallNonNegativeWholeNumber(n) ==
    /\ call.op = "none"
    /\ LET res == EncodeNormallySmallNonNegativeWholeNumber(e.codec, e.aligned, n)
       IN  /\ e' = [e EXCEPT !.codec = res.c]
           /\ call' = [NoCall EXCEPT !.op = "small", !.n = n,
                          !.pre = e.codec, !.err = res.err, !.pending = res.pending]
    /\ UNCHANGED d

\* e.EncodeNormallySmallLength(n)
DoEncodeNormallySmallLength(n) ==
    /\ call.op = "none"
    /\ LET res == EncodeNormallySmallLength(e.codec, e.aligned, n)
       IN  /\ e' = [e EXCEPT !.codec = res.c]
           /\ call' = [NoCall EXCEPT !.op = "smalllength", !.n = n, !.len = ToNat(n),
                          !.pre = e.codec, !.err = res.err, !.pending = res.pending]
    /\ UNCHANGED d

\* e.EncodeEnumerated(value, count, extensible)
DoEncodeEnumerated(value, count, extensible) ==
    /\ call.op = "none"
    /\ LET res == EncodeEnumerated(e.codec, e.aligned, value, count, extensible)
       IN  /\ e' = [e EXCEPT !.codec = res.c]
           /\ call' = [NoCall EXCEPT !.op = "enumerated", !.n = value, !.ub = count,
                          !.ext = extensible,
                          !.pre = e.codec, !.err = res.err, !.pending = res.pending]
    /\ UNCHANGED d

\* e.EncodeReal(value)
DoEncodeReal(value) ==
    /\ call.op = "none"
    /\ LET res == EncodeReal(e.codec, e.aligned, value)
       IN  /\ e' = [e EXCEPT !.codec = res.c]
           /\ call' = [NoCall EXCEPT !.op = "real", !.n = value,
                          !.pre = e.codec, !.err = res.err]
    /\ UNCHANGED d

\* BitsTwosComplementBinaryInteger(value); the result is kept in len
DoBitsTwosComplementBinaryInteger(value) ==
    /\ call.op = "none"
    /\ call' = [NoCall EXCEPT !.op = "width", !.n = value,
                   !.len = BitsTwosComplementBinaryInteger(value),
                   !.pre = e.codec]
    /\ UNCHANGED <<e, d>>

\* math.Float64frombits of sign, biased exponent and fraction
Float64(sign, bexp, frac) ==
    frac \cup Shl64(W(bexp), 52) \cup (IF sign = 1 THEN {63} ELSE {})

NextValues ==
    \/ \E value \in PrefixValues(e.codec.written) :
          DoEncodeBoolean(value) /\ UNCHANGED codecVars
    \/ \E n \in {W(0), W(1), W(62), W(63), W(64), W(255), W(256), W(65536), {39},
                  {63}, WordBits} :
          DoEncodeNormallySmallNonNegativeWholeNumber(n) /\ UNCHANGED codecVars
    \/ \E n \in {0, 1, 2, 63, 64, 65, 127, 128, 16383, 16384, 70000} :
          DoEncodeNormallySmallLength(W(n)) /\ UNCHANGED codecVars
    \/ \E value \in {0, 1, 2, 4, 5, 68, 69, 300} :
          \E count \in {1, 2, 3, 5, 256, 257, 70000} : \E extensible \in BOOLEAN :
             DoEncodeEnumerated(W(value), W(count), extensible) /\ UNCHANGED codecVars
    \/ \E value \in {I64(i) : i \in (-9..9) \cup {127, 128, -128, -129, 32767, 32768,
                                                    -32768, -32769}}
                      \cup {{39}, Not64({39}), {62}, MaxInt64, MinInt64,
                            MinInt64 \cup One} :
          DoBitsTwosComplementBinaryInteger(value) /\ UNCHANGED codecVars

SpecValues == InitPER /\ [][NextValues]_vars

\* one-bit fields, then one call of EncodeReal
NextReal ==
    \/ \E value \in PrefixValues(e.codec.written) :
          DoEncodeBoolean(value) /\ UNCHANGED codecVars
    \/ \E sign \in {0, 1} :
          \E t \in ({0, 1, 894, 895, 896, 1023, 1024, 1150, 1151, 2046} \X {Zero})
                    \cup ({0, 1, 1023, 1075, 2046} \X {One, {51}, {3, 51}, 0..51})
                    \cup ({1019} \X {(0..51) \ {i \in 0..51 : i % 4 \in {2, 3}}})
                    \cup ({2047} \X {Zero, One, {51}}) :
             DoEncodeReal(Float64(sign, t[1], t[2])) /\ UNCHANGED codecVars

SpecReal == InitPER /\ [][NextReal]_vars

\* values of 16K units and more are encoded by an aligned encoder at every
\* bit offset, and by an unaligned one at the bit offsets 0 and 3
LargeStart == e.aligned \/ e.codec.written \in {0, 3}

LargeOctetStringInputs ==
    IF LargeStart
    THEN {Octets(16384)} \X {NoBounds} \X {FALSE}
    ELSE {}

LargeBitStringInputs ==
    IF LargeStart
    THEN ({BitValue(16384)} \X {NoBounds} \X {FALSE})
         \cup ({BitValue(65535)} \X {Fixed(65535)} \X {FALSE})
         \cup ({BitValue(65536)} \X {Fixed(65536)} \X {FALSE})
    ELSE {}

\* e.EncodeOctetString(value, lb, ub, extensible)
DoEncodeOctetString(value, lb, ub, extensible) ==
    /\ call.op = "none"
    /\ LET res == EncodeOctetString(e.codec, e.aligned, value, lb, ub, extensible)
       IN  /\ e' = [e EXCEPT !.codec = res.c]
           /\ call' = [NoCall EXCEPT !.op = "octets", !.data = value, !.lbp = lb,
                          !.ubp = ub, !.ext = extensible,
                          !.pre = e.codec, !.err = res.err]
    /\ UNCHANGED d

\* e.EncodeBitString(value, lb, ub, extensible)
DoEncodeBitString(value, lb, ub, extensible) ==
    /\ call.op = "none"
    /\ LET res == EncodeBitString(e.codec, e.aligned, value, lb, ub, extensible)
       IN  /\ e' = [e EXCEPT !.codec = res.c]
           /\ call' = [NoCall EXCEPT !.op = "bits", !.data = value.Bytes,
                          !.bitlen = value.BitLength, !.lbp = lb,
                          !.ubp = ub, !.ext = extensible,
                          !.pre = e.codec, !.err = res.err]
    /\ UNCHANGED d

NextStr ==
    \/ \E value \in PrefixValues(e.codec.written) :
          DoEncodeBoolean(value) /\ UNCHANGED codecVars
    \/ \E t \in OctetStringInputs \cup LargeOctetStringInputs :
          DoEncodeOctetString(t[1], t[2][1], t[2][2], t[3]) /\ UNCHANGED codecVars
    \/ \E t \in BitStringInputs \cup LargeBitStringInputs :
          DoEncodeBitString(t[1], t[2][1], t[2][2], t[3]) /\ UNCHANGED codecVars

SpecStr == InitPER /\ [][NextStr]_vars

-----------------------------------------------------------------------------
(* The fragmentation loops step by step: a call of                          *)
(* EncodeOctetStringFragments or EncodeBitStringFragments runs up to its    *)
(* loop, and each further step is one iteration.  The call record keeps the *)
(* position in op ("octets:loop", "octets:return", "bits:loop",            *)
(* "bits:return"), the loop variable offset in len, the pending count of    *)
(* the last length determinant in pending and the codec at entry in pre.    *)

\* a fragment of the units that are still pending
FragmentLengthPending(remaining, pending) ==
    IF pending = 0 THEN remaining ELSE pending

\* length: all that remains, or what the length determinant announced
FragmentLength(remaining, pending) ==
    IF pending = 0 THEN remaining ELSE remaining - pending

\* e.EncodeOctetStringFragments(value, lb, ub) as far as the loop
DoEncodeOctetStringFragments(value, lb, ub) ==
    /\ call.op = "none"
    /\ LET c1 == IF e.aligned THEN Align(e.codec) ELSE e.codec
           entered == [NoCall EXCEPT !.data = value, !.lbp = lb, !.ubp = ub,
                                     !.pre = e.codec]
           Empty(ld) ==
               /\ e' = [e EXCEPT !.codec = ld.c]
               /\ call' = [entered EXCEPT !.op = "octets:return", !.err = ld.err]
       IN  IF Len(value) = 0
           THEN Empty(EncodeLengthDeterminant(c1, e.aligned, 0, lb, ub))
           ELSE /\ e' = [e EXCEPT !.codec = c1]
                /\ call' = [entered EXCEPT !.op = "octets:loop"]
    /\ UNCHANGED d

\* one iteration of the loop of EncodeOctetStringFragments on codec c, with the
\* loop variables of the call record cl: the codec and the record after it
OctetStringFragmentsIteration(c, aligned, cl) ==
    LET offset == cl.len
        remaining == Len(cl.data) - offset
        Failed(c1) == [c |-> c1,
                       call |-> [cl EXCEPT !.op = "octets:return", !.err = TRUE]]
        Written(wr, pending, length) ==
            IF wr.err THEN Failed(wr.c)
            ELSE [c |-> wr.c,
                  call |-> [cl EXCEPT
                              !.len = offset + length,
                              !.pending = pending,
                              !.op = IF pending = 0 \/ offset + length >= Len(cl.data)
                                     THEN "octets:return" ELSE "octets:loop"]]
        Fragment(ld, length) ==
            IF ld.err THEN Failed(ld.c)
            ELSE Written(WriteBytes(ld.c, SubSeq(cl.data, offset + 1, offset + length)),
                         ld.pending, length)
        Determined(ld) == Fragment(ld, FragmentLength(remaining, ld.pending))
    IN  Determined(EncodeLengthDeterminant(c, aligned, remaining, cl.lbp, cl.ubp))

\* for offset < n { ... }
OctetStringFragmentsStep ==
    /\ call.op = "octets:loop"
    /\ call.len < Len(call.data)
    /\ LET res == OctetStringFragmentsIteration(e.codec, e.aligned, call)
       IN  /\ e' = [e EXCEPT !.codec = res.c]
           /\ call' = res.call
    /\ UNCHANGED d

\* e.EncodeBitStringFragments(value, count, lb, ub) as far as the loop
DoEncodeBitStringFragments(value, count, lb, ub) ==
    /\ call.op = "none"
    /\ LET c1 == IF e.aligned THEN Align(e.codec) ELSE e.codec
           entered == [NoCall EXCEPT !.data = value, !.bitlen = count, !.lbp = lb,
                                     !.ubp = ub, !.pre = e.codec]
           Empty(ld) ==
               /\ e' = [e EXCEPT !.codec = ld.c]
               /\ call' = [entered EXCEPT !.op = "bits:return", !.err = ld.err]
       IN  IF count = 0
           THEN Empty(EncodeLengthDeterminant(c1, e.aligned, 0, lb, ub))
           ELSE /\ e' = [e EXCEPT !.codec = c1]
                /\ call' = [entered EXCEPT !.op = "bits:loop"]
    /\ UNCHANGED d

\* one iteration of the loop of EncodeBitStringFragments on codec c, with the
\* loop variables of the call record cl: the codec and the record after it
BitStringFragmentsIteration(c, aligned, cl) ==
    LET offset == cl.len
        remaining == cl.bitlen - offset
        nbytes == offset \div 8
        Failed(c1) == [c |-> c1,
                       call |-> [cl EXCEPT !.op = "bits:return", !.err = TRUE]]
        Written(wr, pending, length) ==
            IF wr.err THEN Failed(wr.c)
            ELSE [c |-> wr.c,
                  call |-> [cl EXCEPT
                              !.len = offset + length,
                              !.pending = pending,
                              !.op = IF pending = 0 \/ offset + length >= cl.bitlen
                                     THEN "bits:return" ELSE "bits:loop"]]
        Fragment(ld, length) ==
            IF ld.err \/ nbytes > Len(cl.data) THEN Failed(ld.c)
            ELSE Written(WriteBits(ld.c, Drop(cl.data, nbytes), length),
                         ld.pending, length)
        Determined(ld) == Fragment(ld, FragmentLength(remaining, ld.pending))
    IN  Determined(EncodeLengthDeterminant(c, aligned, remaining, cl.lbp, cl.ubp))

\* for offset < count { ... }
BitStringFragmentsStep ==
    /\ call.op = "bits:loop"
    /\ call.len < call.bitlen
    /\ LET res == BitStringFragmentsIteration(e.codec, e.aligned, call)
       IN  /\ e' = [e EXCEPT !.codec = res.c]
           /\ call' = res.call
    /\ UNCHANGED d

\* values of 16K units and more are encoded after 0 and after 3 one-bit
\* fields, octet strings by an unaligned encoder after 0 only: 3 bits into an
\* octet it writes their octets one by one, as it does those of a bit string
NextFrag ==
    \/ \E value \in PrefixValues(e.codec.written) :
          DoEncodeBoolean(value) /\ UNCHANGED codecVars
    \/ \E n \in {0, 1, 2, 130}
                 \cup (IF e.codec.written = 0 \/ (e.aligned /\ e.codec.written = 3)
                       THEN {16383, 16384, 16385, 32768, 49155} ELSE {}) :
          \E b \in {NoBounds, <<Ptr(0), Nil>>}
                     \cup (IF n <= 300 THEN {<<Ptr(0), Ptr(300)>>} ELSE {}) :
             DoEncodeOctetStringFragments(Octets(n), b[1], b[2]) /\ UNCHANGED codecVars
    \/ OctetStringFragmentsStep /\ UNCHANGED codecVars
    \/ \E n \in {0, 1, 12, 130}
                 \cup (IF e.codec.written \in {0, 3}
                       THEN {16383, 16384, 16385, 65536, 81930, 147459} ELSE {}) :
          \E b \in {NoBounds, <<Ptr(0), Nil>>}
                     \cup (IF n <= 300 THEN {<<Ptr(0), Ptr(300)>>} ELSE {})
                     \cup (IF n = 65536 THEN {Fixed(65536)} ELSE {}) :
             DoEncodeBitStringFragments(Octets((n + 7) \div 8), n, b[1], b[2])
                /\ UNCHANGED codecVars
    \/ BitStringFragmentsStep /\ UNCHANGED codecVars

\* the condition under which an iteration can run: the position is in a loop
\* and its test offset < n holds
CanIterate ==
    \/ call.op = "octets:loop" /\ call.len < Len(call.data)
    \/ call.op = "bits:loop" /\ call.len < call.bitlen

Iterate == (OctetStringFragmentsStep \/ BitStringFragmentsStep) /\ UNCHANGED codecVars

\* A loop that has been entered runs its next iteration: the goroutine that
\* called the encoder keeps running.  This is weak fairness of Iterate,
\* WF_vars(Iterate), with ENABLED <<Iterate>>_vars written out as CanIterate:
\* an iteration is a total function of the state and changes the call record.
SpecFrag ==
    /\ InitPER
    /\ [][NextFrag]_vars
    /\ ([]<>(~CanIterate) \/ []<><<Iterate>>_vars)

\* the codec sessions leave the encoder and the decoder alone
PerIdle ==
    /\ e = [codec |-> CreateWriter, aligned |-> FALSE]
    /\ call = NoCall
    /\ d = NoDecoder

Init == CodecInit /\ PerIdle

Next ==
    \/ \E num \in Widths : \E value \in ValuesFor(num) : DoWrite(num, value) /\ UNCHANGED perVars
    \/ \E data \in Datas : DoWriteBytes(data) /\ UNCHANGED perVars
    \/ DoAlign /\ UNCHANGED perVars
    \/ DoCreateReader /\ UNCHANGED perVars
    \/ DoReadNext /\ UNCHANGED perVars

Spec == Init /\ [][Next]_vars

SpecTest == Init /\ [][NextTest]_vars

SpecCalls == Init /\ [][NextCalls]_vars

-----------------------------------------------------------------------------
(* Reference: the bit stream as a sequence of 0/1, first bit first *)

\* the low num bits of a word, most significant first
FieldBits(value, num) ==
    [i \in 1..num |-> IF (num - i) \in value THEN 1 ELSE 0]

OctetBits(b) == [i \in 1..8 |-> Bit(b, 8 - i)]

DataBits(data) ==
    [i \in 1..(8 * Len(data)) |-> OctetBits(data[((i - 1) \div 8) + 1])[((i - 1) % 8) + 1]]

Zeros(n) == [i \in 1..n |-> 0]

\* zero bits up to the next multiple of eight
PadTo8(bits) == bits \o Zeros((8 - (Len(bits) % 8)) % 8)

\* the octets that hold a bit sequence, MSB first, unused low bits zero
Pack(bits) ==
    LET padded == PadTo8(bits)
    IN  [j \in 1..(Len(padded) \div 8) |->
            SumPow2({b \in 0..7 : padded[8 * j - b] = 1})]

\* the bits the first k calls of a log put on the stream
RECURSIVE RefBits(_, _)
RefBits(l, k) ==
    IF k = 0 THEN <<>>
    ELSE LET prev == RefBits(l, k - 1)
             f == l[k]
         IN  CASE f.kind = "bits"  -> prev \o FieldBits(f.value, f.num)
               [] f.kind = "bytes" -> prev \o DataBits(f.data)
               [] f.kind = "align" -> PadTo8(prev)

Fits(value, num) == value \subseteq 0..(num - 1)

OnlyWrites(l) == \A i \in 1..Len(l) : l[i].kind = "bits"
OnlyFittingWrites(l) ==
    \A i \in 1..Len(l) : l[i].kind = "bits" /\ Fits(l[i].value, l[i].num)
OnlyFieldsAndOctets(l) ==
    \A i \in 1..Len(l) :
        \/ l[i].kind = "bits" /\ Fits(l[i].value, l[i].num)
        \/ l[i].kind = "bytes"

-----------------------------------------------------------------------------
(* C1: fields (n_i, v_i) with v_i < 2^n_i written with Write on a fresh     *)
(* writer are returned by Read(n_i), in order, by a fresh reader over       *)
(* Bytes(), each exactly and without error.                                 *)
C1_WriteReadRoundTrip ==
    (phase = "read" /\ OnlyFittingWrites(log)) =>
        \A i \in 1..Len(got) : ~got[i].err /\ got[i].value = log[i].value

C1_Witness ==
    /\ phase = "read" /\ OnlyFittingWrites(log)
    /\ Len(log) >= 3 /\ Len(got) = Len(log)
    /\ log[1].num = 3 /\ log[2].num = 64 /\ log[2].value = Pattern
    /\ log[3].num = 12 /\ log[3].value # Zero

(* C2: after any sequence of Write(n, v) calls, v any 64-bit value, Bytes() *)
(* is the MSB-first packing of the low n bits of each v in call order, the  *)
(* unused low bits of the last octet zero.                                  *)
C2_BytesIsMsbFirstPacking ==
    OnlyWrites(log) => Bytes(w) = Pack(RefBits(log, Len(log)))

C2_Witness ==
    /\ OnlyWrites(log) /\ Len(log) >= 3
    /\ log[1].num = 3 /\ log[1].value = Pattern
    /\ log[2].num = 12 /\ log[2].value = Pattern
    /\ log[3].num = 1 /\ log[3].value = W(5)

(* C3: interleaved Write(n_i, v_i) and WriteBytes(d_i), WriteBytes reached  *)
(* at any bit offset, are read back exactly by the matching Read(n_i) and   *)
(* ReadBytes(len(d_i)) calls in the same order.                             *)
C3_InterleavedRoundTrip ==
    (phase = "read" /\ OnlyFieldsAndOctets(log)) =>
        \A i \in 1..Len(got) :
            /\ ~got[i].err
            /\ log[i].kind = "bits"  => got[i].value = log[i].value
            /\ log[i].kind = "bytes" => got[i].data = log[i].data

C3_Witness ==
    /\ phase = "read" /\ OnlyFieldsAndOctets(log)
    /\ Len(log) >= 3 /\ Len(got) = Len(log)
    /\ log[1].kind = "bits" /\ log[1].num = 3
    /\ log[2].kind = "bytes" /\ log[2].data = <<255, 1>>
    /\ log[3].kind = "bits" /\ log[3].num = 12 /\ log[3].value # Zero

-----------------------------------------------------------------------------
(* Reference for the encoder claims *)

\* the bit stream a writer holds: its first written bits
Unpack(c) == SubSeq(DataBits(c.Buff), 1, c.written)

Before == Unpack(call.pre)
After  == Unpack(e.codec)

BeforePadded == IF e.aligned THEN PadTo8(Before) ELSE Before

\* the unsigned value of a bit sequence
WordOfBits(bits) == {i \in 0..(Len(bits) - 1) : bits[Len(bits) - i] = 1}

LastBits(bits, k) == SubSeq(bits, Len(bits) - k + 1, Len(bits))

SignExtend(x, width) == IF (width - 1) \in x THEN x \cup (width..63) ELSE x

\* the least number of bits, at least one, that hold an unsigned value
RefBitsUnsigned(x) ==
    CHOOSE k \in 1..64 : x \subseteq 0..(k - 1) /\ \A j \in 1..(k - 1) : ~(x \subseteq 0..(j - 1))

\* the least number of octets, at least one, that hold an unsigned value
RefOctetsUnsigned(x) ==
    CHOOSE k \in 1..8 : x \subseteq 0..(8 * k - 1)
                        /\ \A j \in 1..(k - 1) : ~(x \subseteq 0..(8 * j - 1))

\* -2^(8k-1) <= n < 2^(8k-1)
HoldsSigned(n, k) == SignExtend(n \cap 0..(8 * k - 1), 8 * k) = n

\* the least number of octets, at least one, that hold a signed value
RefOctetsSigned(n) ==
    CHOOSE k \in 1..8 : HoldsSigned(n, k) /\ \A j \in 1..(k - 1) : ~HoldsSigned(n, j)

\* the range of a call as a natural, or -1 when it is above 2^30, zero or negative
RangeNat ==
    LET vr == RangeOf(call.lb, call.ub)
    IN  IF vr # Zero /\ vr \subseteq 0..30 THEN ToNat(vr) ELSE -1

\* the table of X.691 11.5.7.1
TableWidth(rg) ==
    CASE rg = 2 -> 1
      [] rg \in 3..4 -> 2
      [] rg \in 5..8 -> 3
      [] rg \in 9..16 -> 4
      [] rg \in 17..32 -> 5
      [] rg \in 33..64 -> 6
      [] rg \in 65..128 -> 7
      [] rg \in 129..255 -> 8

InBounds == SLe(call.lb, call.n) /\ SLe(call.n, call.ub)

-----------------------------------------------------------------------------
(* C4: for all lb <= n <= ub, in both variants, the constrained whole       *)
(* number is encoded without error and the symmetric decode yields n and    *)
(* consumes exactly the bits that were written.                             *)
C4_ConstrainedRoundTrip ==
    (call.op = "cwn" /\ InBounds) =>
        /\ ~call.err
        /\ d.state = "done" =>
              ~d.err /\ d.val = call.n /\ d.codec.read = e.codec.written

(* C5: aligned variant: a range of 2..255 is written in the table-sized     *)
(* bit-field at the current bit offset without padding; a range of 256 is   *)
(* padded to the octet boundary and written in 8 bits; a range of           *)
(* 257..65536 is padded and written in 16 bits.                             *)
C5_AlignedSmallRanges ==
    (call.op = "cwn" /\ e.aligned /\ InBounds) =>
        LET value == Sub64(call.n, call.lb) IN
        /\ RangeNat \in 2..255 =>
              ~call.err /\ After = Before \o FieldBits(value, TableWidth(RangeNat))
        /\ RangeNat = 256 =>
              ~call.err /\ After = PadTo8(Before) \o FieldBits(value, 8)
        /\ RangeNat \in 257..65536 =>
              ~call.err /\ After = PadTo8(Before) \o FieldBits(value, 16)

C5_Witness ==
    /\ call.op = "cwn" /\ e.aligned /\ InBounds /\ ~call.err
    /\ RangeNat = 65536 /\ call.pre.offset = 3
    /\ call.n = I64(65532)

(* C6: unaligned variant: for every range of 2 or more the value n - lb is  *)
(* written in exactly bits_unsigned(range - 1) bits at the current bit      *)
(* offset, with no padding and no length determinant.                       *)
C6_UnalignedMinimalBits ==
    (call.op = "cwn" /\ ~e.aligned /\ InBounds /\ call.lb # call.ub) =>
        /\ ~call.err
        /\ After = Before \o FieldBits(Sub64(call.n, call.lb),
                                       RefBitsUnsigned(Sub64(call.ub, call.lb)))

C6_Witness ==
    /\ call.op = "cwn" /\ ~e.aligned /\ ~call.err
    /\ call.lb = I64(0) /\ call.ub = {62} /\ call.n = {39}
    /\ call.pre.offset = 3

C8_SemiConstrained ==
    (call.op = "semi" /\ SLe(call.lb, call.n)) =>
        LET value == Sub64(call.n, call.lb)
            octs == RefOctetsUnsigned(value)
        IN  /\ ~call.err
            /\ After = BeforePadded \o FieldBits(W(octs), 8) \o FieldBits(value, 8 * octs)
            /\ Add64(WordOfBits(LastBits(After, 8 * octs)), call.lb) = call.n

C8_Witness ==
    /\ call.op = "semi" /\ e.aligned /\ ~call.err
    /\ call.lb = I64(-3) /\ call.n = I64(65533)
    /\ call.pre.offset = 3

(* C9: the unconstrained whole number n is written as (padding in the       *)
(* aligned variant,) the one-octet unbounded length determinant octs and    *)
(* the low 8 * octs bits of n, octs the least k >= 1 with                   *)
(* -2^(8k-1) <= n < 2^(8k-1); those bits sign-extended give n.              *)
C9_Unconstrained ==
    (call.op = "unconstrained") =>
        LET octs == RefOctetsSigned(call.n)
        IN  /\ ~call.err
            /\ After = BeforePadded \o FieldBits(W(octs), 8) \o FieldBits(call.n, 8 * octs)
            /\ SignExtend(WordOfBits(LastBits(After, 8 * octs)), 8 * octs) = call.n

C9_Witness ==
    /\ call.op = "unconstrained" /\ ~call.err
    /\ call.n = I64(-129) /\ call.pre.offset = 5
    /\ e.codec.written = call.pre.written + (IF e.aligned THEN 3 ELSE 0) + 24

(* C10: an unconstrained length n < 16384 is written whole and pending is   *)
(* 0: one octet 0xxxxxxx for n <= 127, two octets 10xxxxxx xxxxxxxx         *)
(* otherwise, from the next octet boundary in the aligned variant and from  *)
(* the current bit offset in the unaligned variant.                         *)
C10_ShortUnconstrainedLength ==
    (call.op = "length" /\ call.len < 16384) =>
        /\ ~call.err
        /\ call.pending = 0
        /\ After = BeforePadded \o
                     (IF call.len <= 127
                      THEN <<0>> \o FieldBits(W(call.len), 7)
                      ELSE <<1, 0>> \o FieldBits(W(call.len), 14))

C10_Witness ==
    /\ call.op = "length" /\ call.len = 200 /\ ~call.err
    /\ call.pre.offset = 3 /\ ~e.aligned
    /\ e.codec.written = call.pre.written + 16

(* C11: an unconstrained length n >= 16384 is written as the single octet   *)
(* 11000000 | k, k the largest of 1..4 with k * 16384 <= n, after padding   *)
(* in the aligned variant, and pending is n - k * 16384: below 16384 when   *)
(* n < 65536 + 16384, and n - 65536 when n >= 65536.                        *)
C11_FragmentedUnconstrainedLength ==
    (call.op = "length" /\ call.len >= 16384) =>
        LET k == CHOOSE j \in 1..4 :
                     /\ j * 16384 <= call.len
                     /\ \A i \in 1..4 : i * 16384 <= call.len => i <= j
        IN  /\ ~call.err
            /\ After = BeforePadded \o <<1, 1>> \o FieldBits(W(k), 6)
            /\ call.pending = call.len - k * 16384
            /\ call.len < 65536 + 16384 => call.pending < 16384
            /\ call.len >= 65536 => call.pending = call.len - 65536

C11_Witness ==
    /\ call.op = "length" /\ call.len = 49152 /\ ~call.err
    /\ call.pre.offset = 3 /\ e.aligned
    /\ e.codec.written = call.pre.written + 5 + 8
    /\ call.pending = 0

(* C13: EncodeInteger, when extensible, first writes one bit that is 1 iff  *)
(* value is below a present lb or above a present ub, and then encodes      *)
(* value as an unconstrained whole number and stops; otherwise (bit 0 or    *)
(* not extensible) it writes nothing more when lb = ub, a constrained whole *)
(* number when both bounds are present, a semi-constrained whole number     *)
(* when only lb is present, an unconstrained whole number when lb is absent.*)
C13_IntegerDispatch ==
    (call.op = "integer") =>
        LET below == call.lbp # Nil /\ SLt(call.n, call.lbp[1])
            above == call.ubp # Nil /\ SLt(call.ubp[1], call.n)
            out   == call.ext /\ (below \/ above)
            head  == IF call.ext THEN Write(call.pre, 1, IF out THEN One ELSE Zero).c
                     ELSE call.pre
            rest  == CASE out -> EncodeUnconstrainedWholeNumber(head, e.aligned, call.n)
                       [] ~out /\ call.lbp # Nil /\ call.ubp # Nil /\ call.lbp = call.ubp ->
                              [c |-> head, err |-> FALSE, pending |-> 0]
                       [] ~out /\ call.lbp # Nil /\ call.ubp # Nil /\ call.lbp # call.ubp ->
                              EncodeConstrainedWholeNumber(head, e.aligned, call.lbp[1],
                                                           call.ubp[1], call.n)
                       [] ~out /\ call.lbp # Nil /\ call.ubp = Nil ->
                              EncodeSemiConstrainedWholeNumber(head, e.aligned,
                                                               call.lbp[1], call.n)
                       [] ~out /\ call.lbp = Nil ->
                              EncodeUnconstrainedWholeNumber(head, e.aligned, call.n)
        IN  /\ Unpack(head) = Before \o (IF call.ext THEN <<IF out THEN 1 ELSE 0>> ELSE <<>>)
            /\ e.codec = rest.c
            /\ call.err = rest.err

C13_Witness ==
    /\ call.op = "integer" /\ call.ext /\ ~call.err
    /\ call.lbp = Ptr(I64(0)) /\ call.ubp = Ptr(I64(255)) /\ call.n = I64(-4)
    /\ call.pre.offset = 3 /\ ~e.aligned
    /\ After = Before \o <<1>> \o FieldBits(W(1), 8) \o FieldBits(I64(-4), 8)

-----------------------------------------------------------------------------
(* Reference for the string claims *)

IsString == call.op \in {"octets", "bits"}

\* the length of the value in its units: octets or bits
StrUnits == IF call.op = "octets" THEN Len(call.data) ELSE call.bitlen

\* the bits of the value: all its octets, or the first BitLength bits of them
StrContent ==
    IF call.op = "octets" THEN DataBits(call.data)
    ELSE SubSeq(DataBits(call.data), 1, call.bitlen)

StrBelow == call.lbp # Nil /\ StrUnits < call.lbp[1]
StrAbove == call.ubp # Nil /\ StrUnits > call.ubp[1]
StrExtended == call.ext /\ (StrBelow \/ StrAbove)

\* the stream up to and including the extension bit
StrHead ==
    Before \o (IF call.ext THEN <<IF StrExtended THEN 1 ELSE 0>> ELSE <<>>)

PadIfAligned(bits) == IF e.aligned THEN PadTo8(bits) ELSE bits

StrFixed == call.lbp # Nil /\ call.ubp # Nil /\ call.lbp = call.ubp
StrEmptyType == call.ubp # Nil /\ call.ubp[1] = 0

\* the value is sent with a length determinant
StrLengthForm ==
    StrExtended \/ (~StrEmptyType /\ ~(StrFixed /\ call.ubp[1] < 65536))

\* ... and the length determinant is the unconstrained one
StrUnconstrained ==
    StrExtended \/ call.lbp = Nil \/ call.ubp = Nil \/ call.ubp[1] >= 65536

RefShortLength(n) ==
    IF n <= 127 THEN <<0>> \o FieldBits(W(n), 7) ELSE <<1, 0>> \o FieldBits(W(n), 14)

\* a stream followed by the length n as a constrained whole number of lb..ub
RefConstrainedLength(bits, n, lb, ub) ==
    LET rg == ub - lb + 1 IN
    IF rg = 1 THEN bits
    ELSE IF ~e.aligned THEN bits \o FieldBits(W(n - lb), RefBitsUnsigned(W(ub - lb)))
    ELSE IF rg <= 255 THEN bits \o FieldBits(W(n - lb), TableWidth(rg))
    ELSE IF rg = 256 THEN PadTo8(bits) \o FieldBits(W(n - lb), 8)
    ELSE PadTo8(bits) \o FieldBits(W(n - lb), 16)

\* the stream of a value of fewer than 16K units sent with its length
RefWithLength ==
    LET start == PadIfAligned(StrHead) IN
    IF StrUnconstrained THEN start \o RefShortLength(StrUnits) \o StrContent
    ELSE RefConstrainedLength(start, StrUnits, call.lbp[1], call.ubp[1]) \o StrContent

\* the first fragment of a value of 16K units and more: 11kkkkkk and k blocks
RefFirstFragment ==
    LET k == Min(4, StrUnits \div 16384)
        unit == IF call.op = "octets" THEN 8 ELSE 1
    IN  PadIfAligned(StrHead) \o <<1, 1>> \o FieldBits(W(k), 6)
            \o SubSeq(StrContent, 1, k * 16384 * unit)

StartsWith(bits, prefix) ==
    Len(bits) >= Len(prefix) /\ SubSeq(bits, 1, Len(prefix)) = prefix

\* the length is within the bounds that are present
StrInRoot == ~StrBelow /\ ~StrAbove

\* the stream of a value sent with a length determinant
SentWithLength ==
    IF StrUnconstrained /\ StrUnits >= 16384
    THEN StartsWith(After, RefFirstFragment)
    ELSE After = RefWithLength

(* C12: a value sent with an unconstrained length determinant whose length  *)
(* is an exact non-zero multiple of 16384 units ends with a zero-length     *)
(* trailer: after the last 16K-multiple fragment body comes the single      *)
(* octet 0x00.                                                              *)
C12_ZeroLengthTrailer ==
    (IsString /\ StrLengthForm /\ StrUnconstrained
       /\ StrUnits > 0 /\ StrUnits % 16384 = 0 /\ StrUnits <= 65536) =>
        /\ ~call.err
        /\ After = RefFirstFragment \o Zeros(8)

C15_BitStringForms ==
    (call.op = "bits" /\ ~StrExtended) =>
        /\ StrEmptyType => ~call.err /\ After = StrHead
        /\ (StrFixed /\ call.ubp[1] \in 1..65535
               /\ 8 * Len(call.data) >= call.ubp[1]) =>
              /\ ~call.err
              /\ After = (IF call.ubp[1] <= 16 THEN StrHead ELSE PadIfAligned(StrHead))
                             \o SubSeq(DataBits(call.data), 1, call.ubp[1])
        /\ (StrLengthForm /\ StrInRoot) =>
              /\ ~call.err
              /\ SentWithLength
              /\ Len(After) > Len(PadIfAligned(StrHead)) + Len(StrContent)

C15_Witness ==
    /\ call.op = "bits" /\ ~call.err /\ ~call.ext
    /\ call.lbp = Ptr(27) /\ call.ubp = Ptr(27) /\ call.bitlen = 27
    /\ ByteAnd(call.data[4], 31) # 0
    /\ e.aligned /\ call.pre.offset = 3
    /\ e.codec.written = call.pre.written + 5 + 27

-----------------------------------------------------------------------------
(* Reference for the counters *)

\* the bits a call of the log puts on the stream
EntryBits(f) ==
    CASE f.kind = "bits"  -> f.num
      [] f.kind = "bytes" -> 8 * Len(f.data)
      [] f.kind = "align" -> 0

\* the sum of EntryBits over l[a..b]
RECURSIVE SumBits(_, _, _)
SumBits(l, a, b) ==
    IF a > b THEN 0
    ELSE IF a = b THEN EntryBits(l[a])
    ELSE LET mid == (a + b) \div 2
         IN  SumBits(l, a, mid) + SumBits(l, mid + 1, b)

(* C16: after any sequence of successful Write(n, .) and WriteBytes(d) on a *)
(* fresh writer NumWritten() is the sum of the n plus 8 times the sum of    *)
(* the len(d); a fresh reader over Bytes() that has read the fields back in *)
(* order has NumRead() equal to the total of the fields read, the same      *)
(* total once all are read: 2080 for the 64 fields n = 1..64.               *)
C16_CountersAreTotals ==
    /\ \A i \in 1..Len(log) : ~log[i].err
    /\ NumWritten(w) = SumBits(log, 1, Len(log))
    /\ phase = "read" =>
          /\ \A i \in 1..Len(got) : ~got[i].err
          /\ NumRead(r) = SumBits(log, 1, Len(got))
          /\ Len(got) = Len(log) => NumRead(r) = NumWritten(w)
    /\ (OnlyWrites(log) /\ Len(log) = 64) =>
          /\ NumWritten(w) = 2080
          /\ (phase = "read" /\ Len(got) = 64) => NumRead(r) = 2080

C16_Witness ==
    /\ phase = "read" /\ OnlyWrites(log)
    /\ Len(log) = 64 /\ Len(got) = 64
    /\ \A i \in 1..64 : log[i].num = i /\ got[i].value = W(i)
    /\ NumRead(r) = 2080

-----------------------------------------------------------------------------
(* Reference for the claims about single calls *)

\* a step that makes one call on the writer; the call is the last of log'
WriterCall == phase = "write" /\ phase' = "write" /\ Len(log') = Len(log) + 1

\* a step that makes one call on the reader; the call is got'[1]
ReaderCall == phase = "read" /\ phase' = "read" /\ got' # <<>>

\* the bits of the input that the reader has not passed, by its position
Unread(c) == IF c.Buff = <<>> THEN 0 ELSE 8 * Len(c.Buff) - c.offset

\* C17: Align on a writer and Advance on a reader change nothing at offset 0
\* or 8; at offset k in 1..7 they set the offset to 8, add 8 - k to written
\* (Align) or to read (Advance) and leave the buffer as it is; the Write or
\* Read that follows begins at bit 7 of the next octet.
C17_AlignAdvanceFrame ==
    [][ /\ (WriterCall /\ log'[Len(log')].kind = "align") =>
              IF w.offset \in 1..7
              THEN /\ w'.offset = 8
                   /\ w'.written = w.written + (8 - w.offset)
                   /\ w'.Buff = w.Buff
                   /\ w'.read = w.read
              ELSE w' = w
        /\ (WriterCall /\ w.offset = 8 /\ log'[Len(log')].kind = "bits"
                       /\ ~log'[Len(log')].err) =>
              w'.Buff = w.Buff \o Pack(FieldBits(log'[Len(log')].value,
                                                 log'[Len(log')].num))
        /\ (ReaderCall /\ got'[1].op = "advance") =>
              IF r.offset \in 1..7
              THEN /\ r'.offset = 8
                   /\ r'.read = r.read + (8 - r.offset)
                   /\ r'.Buff = r.Buff
                   /\ r'.written = r.written
              ELSE r' = r
        /\ (ReaderCall /\ r.offset = 8 /\ got'[1].op = "bits"
                       /\ got'[1].arg > 0 /\ ~got'[1].err) =>
              got'[1].value =
                  WordOfBits(SubSeq(DataBits(Tail(r.Buff)), 1, got'[1].arg))
      ]_vars

\* three bits, Align, twelve bits: the padding is counted and the twelve bits
\* fill two fresh octets
C17_Witness ==
    /\ phase = "write" /\ Len(log) = 3
    /\ log[1].kind = "bits" /\ log[1].num = 3
    /\ log[2].kind = "align"
    /\ log[3].kind = "bits" /\ log[3].num = 12
    /\ NumWritten(w) = 20 /\ Len(w.Buff) = 3 /\ w.offset = 4

\* C18: a call that fails its precondition check (Write of 0 or of more than
\* 64 bits, Read of more than 64 bits, ReadBytes of a negative count) returns
\* an error and leaves buffer, offset and both counters as they were.
C18_FailedPreconditions ==
    [][ /\ (WriterCall /\ log'[Len(log')].kind = "bits"
                       /\ (log'[Len(log')].num = 0 \/ log'[Len(log')].num > 64)) =>
              log'[Len(log')].err /\ w' = w
        /\ (ReaderCall /\ got'[1].op = "bits" /\ got'[1].arg > 64) =>
              got'[1].err /\ r' = r
        /\ (ReaderCall /\ got'[1].op = "bytes" /\ got'[1].arg < 0) =>
              got'[1].err /\ r' = r
      ]_vars

\* ReadBytes(-1) refused in the middle of an octet
C18_Witness ==
    /\ phase = "read" /\ got # <<>>
    /\ got[1].op = "bytes" /\ got[1].arg = -1 /\ got[1].err
    /\ r.offset = 5 /\ NumRead(r) = 5 /\ Len(r.Buff) = 3

\* C19: in every state of a reader session Read(n), 1 <= n <= 64, fails
\* exactly when fewer than n unread bits remain, ReadBytes(m), m >= 1, fails
\* exactly when fewer than 8 * m unread bits remain, and Read(0) returns 0
\* without error.  The unread bits are those after the reader's position;
\* they are never more than the input less NumRead, and exactly that as long
\* as no call has failed.
C19_ErrorIffExhausted ==
    [][ ReaderCall =>
          /\ (got'[1].op = "bits" /\ got'[1].arg \in 1..64) =>
                (got'[1].err <=> Unread(r) < got'[1].arg)
          /\ (got'[1].op = "bytes" /\ got'[1].arg >= 1) =>
                (got'[1].err <=> Unread(r) < 8 * got'[1].arg)
          /\ (got'[1].op = "bits" /\ got'[1].arg = 0) =>
                ~got'[1].err /\ got'[1].value = Zero
          /\ Unread(r) <= 8 * Len(log[1].data) - NumRead(r)
          /\ (IF got = <<>> THEN TRUE ELSE got[1].clean) =>
                Unread(r) = 8 * Len(log[1].data) - NumRead(r)
      ]_vars

\* five bits read from an input of one octet, then Read(5) refused
C19_Witness ==
    /\ phase = "read" /\ got # <<>>
    /\ got[1].op = "bits" /\ got[1].arg = 5 /\ got[1].err
    /\ Len(log[1].data) = 1 /\ NumRead(r) = 5

\* the writer after Write(8, b) for each octet b of data, in order
RECURSIVE WriteOctets(_, _)
WriteOctets(c, data) ==
    IF data = <<>> THEN c
    ELSE WriteOctets(Write(c, 8, W(Head(data))).c, Tail(data))

\* C20: at every bit offset of the writer WriteBytes(d) leaves Bytes(), the
\* offset and NumWritten() as Write(8, b) for each octet b of d in order
\* leaves them; on a byte-aligned writer d is the new tail of Bytes() and
\* NumWritten() rises by 8 * len(d).
C20_WriteBytesAsWrites ==
    [][ (WriterCall /\ log'[Len(log')].kind = "bytes") =>
          /\ ~log'[Len(log')].err
          /\ Bytes(w') = Bytes(WriteOctets(w, log'[Len(log')].data))
          /\ w'.offset = WriteOctets(w, log'[Len(log')].data).offset
          /\ NumWritten(w') = NumWritten(WriteOctets(w, log'[Len(log')].data))
          /\ (w.offset \in {0, 8}) =>
                /\ Bytes(w') = Bytes(w) \o log'[Len(log')].data
                /\ NumWritten(w') = NumWritten(w) + 8 * Len(log'[Len(log')].data)
      ]_vars

\* two octets written on the byte boundary that Align has made
C20_Witness ==
    /\ phase = "write" /\ Len(log) = 3
    /\ log[1].kind = "bits" /\ log[1].num = 12
    /\ log[2].kind = "align"
    /\ log[3].kind = "bytes" /\ log[3].data = <<255, 1>>
    /\ NumWritten(w) = 32 /\ w.offset = 8 /\ Bytes(w)[4] = 1

-----------------------------------------------------------------------------
(* Reference for the claims about small numbers and enumerations *)

\* the stream padded to an octet boundary in the aligned variant only
PadIfAlignedVariant(bits) == IF e.aligned THEN PadTo8(bits) ELSE bits

\* C21: a normally small non-negative whole number n <= 63 is written as a
\* 0 bit and n in 6 bits, 7 bits at the current offset in either variant;
\* n >= 64 is written as a 1 bit and the semi-constrained encoding of n with
\* lb = 0: padding (aligned only), the octet count, n in that many octets.
C21_NormallySmallNumber ==
    (call.op = "small") =>
        /\ ~call.err
        /\ ULe(call.n, W(63)) => After = Before \o <<0>> \o FieldBits(call.n, 6)
        /\ ~ULe(call.n, W(63)) =>
              LET octs == RefOctetsUnsigned(call.n)
              IN  After = PadIfAlignedVariant(Before \o <<1>>)
                             \o FieldBits(W(octs), 8) \o FieldBits(call.n, 8 * octs)

C21_Witness ==
    /\ call.op = "small" /\ ~call.err /\ e.aligned
    /\ call.n = W(256) /\ call.pre.offset = 3
    /\ e.codec.written = call.pre.written + 1 + 4 + 8 + 16

\* C22: a normally small length n <= 64 is written as a 0 bit and the
\* number n - 1 in 6 bits; n > 64 is written as a 1 bit and the unconstrained
\* length encoding of n.
C22_NormallySmallLength ==
    (call.op = "smalllength") =>
        /\ ~call.err
        /\ call.len <= 64 =>
              \E v \in 0..63 : v + 1 = call.len
                                /\ After = Before \o <<0>> \o FieldBits(W(v), 6)
        /\ call.len > 64 =>
              LET head == PadIfAlignedVariant(Before \o <<1>>)
              IN  After = head \o
                     (IF call.len <= 127 THEN <<0>> \o FieldBits(W(call.len), 7)
                      ELSE IF call.len < 16384 THEN <<1, 0>> \o FieldBits(W(call.len), 14)
                      ELSE <<1, 1>> \o FieldBits(W((call.len - call.pending) \div 16384), 6))

\* C23: EncodeEnumerated(value, count, extensible) writes, when extensible
\* and value >= count, a 1 bit and value - count as a normally small number;
\* otherwise a 0 bit only when extensible and then value as a constrained
\* whole number over [0, count - 1], which is no bit at all for count = 1.
C23_Enumerated ==
    (call.op = "enumerated") =>
        LET value == ToNat(call.n)
            count == ToNat(call.ub)
            marker == IF call.ext THEN <<0>> ELSE <<>>
            head == IF call.ext THEN Write(call.pre, 1, Zero).c ELSE call.pre
        IN  IF call.ext /\ value >= count
            THEN /\ e.codec = EncodeNormallySmallNonNegativeWholeNumber(
                                  Write(call.pre, 1, One).c, e.aligned,
                                  W(value - count)).c
                 /\ ~call.err
                 /\ SubSeq(After, 1, Len(Before) + 1) = Before \o <<1>>
                 /\ value - count <= 63 =>
                       After = Before \o <<1, 0>> \o FieldBits(W(value - count), 6)
            ELSE /\ Unpack(head) = Before \o marker
                 /\ e.codec = EncodeConstrainedWholeNumber(head, e.aligned, Zero,
                                                            W(count - 1), call.n).c
                 /\ value < count =>
                       /\ ~call.err
                       /\ count = 1 => After = Before \o marker
                       /\ (count >= 2 /\ ~e.aligned) =>
                             After = Before \o marker \o
                                       FieldBits(call.n, RefBitsUnsigned(W(count - 1)))
                       /\ (count \in 2..255 /\ e.aligned) =>
                             After = Before \o marker \o
                                       FieldBits(call.n, TableWidth(count))
                       /\ (count = 256 /\ e.aligned) =>
                             After = PadTo8(Before \o marker) \o FieldBits(call.n, 8)
                       /\ (count \in 257..65536 /\ e.aligned) =>
                             After = PadTo8(Before \o marker) \o FieldBits(call.n, 16)

C23_Witness ==
    /\ call.op = "enumerated" /\ call.ext /\ ~call.err
    /\ call.n = W(68) /\ call.ub = W(5) /\ call.pre.offset = 3
    /\ After = Before \o <<1, 0, 1, 1, 1, 1, 1, 1>>

-----------------------------------------------------------------------------
(* Reference for the real values: the fields of the float64 of a call *)

RealSign == IF 63 \in call.n THEN 1 ELSE 0
RealBexp == ToNat(Shr64(call.n, 52) \cap 0..10)
RealFraction == call.n \cap 0..51

RealFiniteNonZero == RealBexp # 2047 /\ call.n \ {63} # {}

\* M0 and E0: the significand as an integer and its exponent
RealM0 == IF RealBexp = 0 THEN RealFraction ELSE RealFraction \cup {52}
RealE0 == IF RealBexp = 0 THEN -1022 - 52 ELSE RealBexp - 1023 - 52

\* the number of halvings that make M0 odd
RealHalvings == CHOOSE t \in 0..52 : t \in RealM0 /\ \A j \in 0..(t - 1) : j \notin RealM0

RealM == Shr64(RealM0, RealHalvings)
RealE == RealE0 + RealHalvings

\* the contents octets of X.690 8.5.7 for sign, M and E, as bits
RefRealContents ==
    LET L == RefOctetsSigned(I64(RealE))
        first == 128 + 64 * RealSign + (IF L - 1 < 3 THEN L - 1 ELSE 3)
    IN  FieldBits(W(first), 8)
           \o (IF L > 3 THEN FieldBits(W(L), 8) ELSE <<>>)
           \o FieldBits(I64(RealE), 8 * L)
           \o FieldBits(RealM, 8 * RefOctetsUnsigned(RealM))

\* C24: for a finite non-zero float64 the contents octets of EncodeReal are
\* the first octet 0x80 | (s << 6) | min(L - 1, 3), L = octets_signed(E), then
\* E in two's complement in L octets (after a count octet when L > 3), then
\* M in octets_unsigned(M) octets, where M is odd and M * 2^(E - E0) = M0;
\* they follow their one-octet length, which starts on an octet boundary in
\* the aligned variant.  The value 1.0 has the contents 0x80 0x00 0x01.
C24_RealContents ==
    (call.op = "real" /\ RealFiniteNonZero) =>
        /\ ~call.err
        /\ 0 \in RealM /\ Shl64(RealM, RealE - RealE0) = RealM0
        /\ After = BeforePadded \o FieldBits(W(Len(RefRealContents) \div 8), 8)
                      \o RefRealContents
        /\ call.n = Float64(0, 1023, Zero) =>
              After = BeforePadded \o DataBits(<<3, 128, 0, 1>>)

\* a negative value with a fraction of 52 significant bits and a negative
\* exponent: 1 + 1 + 7 contents octets
C24_Witness ==
    /\ call.op = "real" /\ ~call.err /\ ~e.aligned
    /\ RealSign = 1 /\ RealBexp = 1019 /\ RealHalvings = 0 /\ RealE = -56
    /\ call.pre.offset = 5
    /\ e.codec.written = call.pre.written + 8 + 72

\* the least k >= 1 with -2^(k-1) <= v < 2^(k-1)
RefBitsSigned(v) ==
    CHOOSE k \in 1..64 :
        /\ SignExtend(v \cap 0..(k - 1), k) = v
        /\ \A j \in 1..(k - 1) : SignExtend(v \cap 0..(j - 1), j) # v

\* C25 as stated: bits_signed(v) is 1 for v = 0, bits_unsigned(v) + 1 for
\* v > 0 and bits_unsigned(~v) + 1 for v < 0, bits_unsigned(x) being 1 for
\* x = 0 and otherwise the position of the highest set bit plus 1.
C25_BitsSignedAsStated ==
    (call.op = "width") =>
        call.len = (IF call.n = Zero THEN 1
                    ELSE IF SLt(Zero, call.n) THEN RefBitsUnsigned(call.n) + 1
                    ELSE RefBitsUnsigned(Not64(call.n)) + 1)

\* C25, amended: bits_signed(v) is 1 for v = 0 and for v = -1,
\* bits_unsigned(v) + 1 for v > 0 and bits_unsigned(~v) + 1 for v < -1; it is
\* the least width that holds v in two's complement.
C25_BitsSigned ==
    (call.op = "width") =>
        /\ call.len = (IF call.n = Zero \/ call.n = I64(-1) THEN 1
                       ELSE IF SLt(Zero, call.n) THEN RefBitsUnsigned(call.n) + 1
                       ELSE RefBitsUnsigned(Not64(call.n)) + 1)
        /\ call.len = RefBitsSigned(call.n)

C25_Witness ==
    /\ call.op = "width" /\ call.n = I64(-1) /\ call.len = 1
    /\ call.pre.written = 3

\* C26: in every reader state, also after a Read or ReadBytes call that
\* returned an exhaustion error, NumRead() is the reader's bit position in the
\* input: 8 * (octets dropped from the front of the buffer) + offset.
C26_ReadCounterIsPosition ==
    phase = "read" =>
        NumRead(r) = 8 * (Len(log[1].data) - Len(r.Buff)) + r.offset

\* C27: in every state a writer reaches through Write, WriteBytes and Align,
\* len(Buff) = ceil(written / 8) and Bytes() has that many octets; offset is
\* 0 exactly when written is 0 and otherwise ((written - 1) mod 8) + 1; the
\* bits of the last octet at or beyond position offset are 0.
C27_WriterShape ==
    /\ Len(w.Buff) = (w.written + 7) \div 8
    /\ Len(Bytes(w)) = (w.written + 7) \div 8
    /\ w.offset = 0 <=> w.written = 0
    /\ w.written > 0 => w.offset = ((w.written - 1) % 8) + 1
    /\ w.Buff # <<>> => w.Buff[Len(w.Buff)] % (2 ^ (8 - w.offset)) = 0

\* three bits, two octets through the slow path, then the padding of Align
C27_Witness ==
    /\ Len(log) = 3
    /\ log[1].kind = "bits" /\ log[1].num = 3 /\ ~log[1].err
    /\ log[2].kind = "bytes" /\ log[3].kind = "align"
    /\ w.written = 24 /\ w.offset = 8 /\ Len(w.Buff) = 3

-----------------------------------------------------------------------------
(* Reference for the fragmentation loops *)

InFragmentsLoop == call.op \in {"octets:loop", "bits:loop"}
FragmentsReturned == call.op \in {"octets:return", "bits:return"}

\* bits per unit and units of the value of a call of a fragments encoder
FragUnit == IF call.op \in {"octets:loop", "octets:return"} THEN 8 ELSE 1
FragTotal == IF FragUnit = 8 THEN Len(call.data) ELSE call.bitlen

\* bit i of a sequence of octets, counted from 1, first bit of an octet its
\* most significant
BitOf(octets, i) == Bit(octets[((i - 1) \div 8) + 1], 7 - ((i - 1) % 8))

\* the n bits of a after its first i are the n bits of b after its first j:
\* octet by octet where both runs start on an octet boundary
SameBits(a, i, b, j, n) ==
    IF i % 8 = 0 /\ j % 8 = 0
    THEN /\ \A o \in 1..(n \div 8) : a[(i \div 8) + o] = b[(j \div 8) + o]
         /\ \A k \in (n - (n % 8) + 1)..n : BitOf(a, i + k) = BitOf(b, j + k)
    ELSE \A k \in 1..n : BitOf(a, i + k) = BitOf(b, j + k)

\* an iteration that moves offset from `from` to `to`, with the codec old
\* before it and new after it: the stream keeps its bits and grows by a
\* length determinant and the units from..to of the value
FragmentWritten(old, new, from, to, pending, last) ==
    LET length == to - from
        body == FragUnit * length
        head == new.written - old.written - body
    IN  /\ to > from
        /\ length = (FragTotal - from) - pending
        /\ head >= 8
        /\ SameBits(new.Buff, 0, old.Buff, 0, old.written)
        /\ SameBits(new.Buff, old.written + head, call.data, FragUnit * from, body)
        /\ ~last =>
              /\ \E k \in 1..4 :
                    /\ length = k * 16384
                    /\ [i \in 1..8 |-> BitOf(new.Buff, old.written + i)]
                          = <<1, 1>> \o FieldBits(W(k), 6)
              /\ head = 8

\* C28: the loops of EncodeOctetStringFragments and EncodeBitStringFragments
\* terminate; each iteration writes remaining - pending units of the value
\* starting at the current offset, the offset strictly increases, every
\* fragment before the last is k * 16384 units (k in 1..4) announced by the
\* length octet before it, and at the return the offset, the sum of the
\* fragment sizes, is the total length, so that the fragments in order are
\* the value.
C28_Fragmentation ==
    /\ [][ (InFragmentsLoop /\ call' # call) =>
             /\ ~call'.err
             /\ FragmentWritten(e.codec, e'.codec, call.len, call'.len,
                                call'.pending, call'.op # call.op)
         ]_vars
    /\ [](FragmentsReturned => ~call.err /\ call.len = FragTotal)
    /\ [](InFragmentsLoop => call.len < FragTotal)
    /\ (InFragmentsLoop ~> FragmentsReturned)

\* 147459 bits from bit offset 3 of an unaligned encoder: fragments of 64K,
\* 64K and 16K bits and a last one of 3 bits
C28_Witness ==
    /\ call.op = "bits:return" /\ ~call.err /\ ~e.aligned
    /\ call.bitlen = 147459 /\ call.len = 147459 /\ call.pending = 0
    /\ call.pre.written = 3
    /\ e.codec.written = 3 + 4 * 8 + 147459

\* C29: in the aligned variant the content octets of an octet string that is
\* not sent in the short form of a fixed length of at most two octets start
\* on an octet boundary of the output, whatever the bit offset before the
\* call and whether the length determinant is a constrained bit-field or the
\* unconstrained one.  (Values of one length determinant: the content octets
\* are the last octets of the stream.)
C29_AlignedContent ==
    (/\ call.op = "octets" /\ e.aligned /\ ~call.err
     /\ Len(call.data) \in 1..16383
     /\ ~(~StrExtended /\ StrFixed /\ call.ubp[1] <= 2)) =>
        /\ LastBits(After, 8 * Len(call.data)) = DataBits(call.data)
        /\ (Len(After) - 8 * Len(call.data)) % 8 = 0

\* C30: for all signed 64-bit lb <= n <= ub the range ub - lb + 1 that
\* EncodeConstrainedWholeNumber computes in int64 is at least 1; the call
\* returns no error and writes a field of at least one bit, or nothing when
\* lb = ub, in both variants, also when ub - lb does not fit in an int64.
C30_RangeAtLeastOne ==
    (call.op = "cwn" /\ SLe(call.lb, call.n) /\ SLe(call.n, call.ub)) =>
        /\ SLe(One, RangeOf(call.lb, call.ub))
        /\ ~call.err
        /\ IF call.lb = call.ub
           THEN e.codec = call.pre
           ELSE e.codec.written >= call.pre.written + 1

====
